---------------------------- MODULE Spec2Model ----------------------------
(***************************************************************************)
(* Provider-data pipeline: validation (DataValidationAgent), enrichment     *)
(* (Enricher / run_batch) and quality assurance (QualityAssuranceAgent).    *)
(*                                                                         *)
(* Conventions                                                             *)
(*   - a Python str is a sequence of one-character strings;                *)
(*   - a Python value is a record [t, s, n, l]: t is the type tag          *)
(*     ("absent" = key not in the dict, "none", "str", "int", "list"),     *)
(*     s the characters of a str, n the integer, l the items of a list;    *)
(*   - a score is an integer number of thousandths (0.95 is 950), a        *)
(*     weight an integer number of tenths (0.5 is 5), and a weighted       *)
(*     score their product (ten-thousandths).                              *)
(***************************************************************************)
EXTENDS Integers, Sequences, FiniteSets, TLC

VARIABLES
    qa_enriched,    \* the enriched record handed to QualityAssuranceAgent.classify
    qa_result,      \* what classify returned for it ("NONE" before the call)
    weights,        \* FINAL_CONF_WEIGHTS of the validation agent
    phone_lib,      \* what the optional phonenumbers library answers
    val_csv,        \* csv_row argument of DataValidationAgent.run
    val_pdf,        \* extracted_json argument of DataValidationAgent.run
    val_record,     \* the validated record run returned
    validated,      \* the validated store: provider id -> record
    exp_text,       \* the raw value handed to extract_experience_years
    exp_years,      \* what extract_experience_years returned for it
    store_kind,     \* which stage store the writers of the run share
    dir,            \* directory: path -> inode number (0 = no such file)
    inodes,         \* inode number -> file content (sequence of chunks)
    wr,             \* writer -> its control state
    enr_rec,        \* validated_record argument of Enricher.enrich_provider
    enr_svc,        \* what the three external services answer
    enr_weights,    \* the weights the Enricher was built with
    enr_out,        \* the enriched record enrich_provider returned
    enr_run,        \* control state of one enrich_provider call, step by step
    st_validated,   \* validated_data.json: records in key order
    st_enriched,    \* enriched_data.json: records in key order
    st_qa,          \* qa_results.json: records in key order
    svc_outcome,    \* provider id -> how enrich_provider ends for it
    batch,          \* control state of run_batch
    ret,            \* how the last call of a stage entry point ended
    progress        \* stage runs completed since the validated store last
                    \* changed: 1 validation, 2 enrichment, 3 QA, then 4, 5, 6
                    \* for the same three run again on unchanged inputs

qaVars == <<qa_enriched, qa_result>>
valVars == <<weights, phone_lib, val_csv, val_pdf, val_record, validated,
            exp_text, exp_years>>
storeVars == <<store_kind, dir, inodes, wr>>
enrVars == <<enr_rec, enr_svc, enr_weights, enr_out, enr_run>>
pipeVars == <<st_validated, st_enriched, st_qa, svc_outcome, batch, ret, progress>>
vars == <<qa_enriched, qa_result, weights, phone_lib, val_csv, val_pdf,
          val_record, validated, exp_text, exp_years, store_kind, dir, inodes, wr,
          enr_rec, enr_svc, enr_weights, enr_out, enr_run,
          st_validated, st_enriched, st_qa, svc_outcome, batch, ret, progress>>

---------------------------------------------------------------------------
(* Characters and strings                                                  *)

UpperChars == <<"A","B","C","D","E","F","G","H","I","J","K","L","M",
                "N","O","P","Q","R","S","T","U","V","W","X","Y","Z">>
LowerChars == <<"a","b","c","d","e","f","g","h","i","j","k","l","m",
                "n","o","p","q","r","s","t","u","v","w","x","y","z">>
Digits == {"0","1","2","3","4","5","6","7","8","9"}
Whitespace == {" ", "\t", "\n", "\r"}

UpperSet == {UpperChars[i] : i \in 1..26}
LowerSet == {LowerChars[i] : i \in 1..26}
ToLower == [c \in UpperSet |-> LowerChars[CHOOSE i \in 1..26 : UpperChars[i] = c]]
ToUpper == [c \in LowerSet |-> UpperChars[CHOOSE i \in 1..26 : LowerChars[i] = c]]

IsUpper(c) == c \in UpperSet
IsLower(c) == c \in LowerSet
IsAlpha(c) == IsUpper(c) \/ IsLower(c)
IsDigit(c) == c \in Digits
IsWordChar(c) == IsAlpha(c) \/ IsDigit(c) \/ c = "_"

LowerChar(c) == IF IsUpper(c) THEN ToLower[c] ELSE c
UpperChar(c) == IF IsLower(c) THEN ToUpper[c] ELSE c

\* str.lower() and str.upper()
Lower(s) == [i \in 1..Len(s) |-> LowerChar(s[i])]
Upper(s) == [i \in 1..Len(s) |-> UpperChar(s[i])]

RECURSIVE LStrip(_)
LStrip(s) == IF s # <<>> /\ Head(s) \in Whitespace THEN LStrip(Tail(s)) ELSE s
RECURSIVE RStrip(_)
RStrip(s) ==
    IF s # <<>> /\ s[Len(s)] \in Whitespace
    THEN RStrip(SubSeq(s, 1, Len(s) - 1)) ELSE s
\* str.strip()
Strip(s) == RStrip(LStrip(s))

\* needle in hay (Python substring test)
Contains(hay, needle) ==
    \E i \in 0..(Len(hay) - Len(needle)) :
        SubSeq(hay, i + 1, i + Len(needle)) = needle

\* s[:n]
Prefix(s, n) == SubSeq(s, 1, IF Len(s) < n THEN Len(s) ELSE n)

---------------------------------------------------------------------------
(* Python values                                                           *)

Absent == [t |-> "absent", s |-> <<>>, n |-> 0, l |-> <<>>]
NoneV == [t |-> "none", s |-> <<>>, n |-> 0, l |-> <<>>]
Str(x) == [t |-> "str", s |-> x, n |-> 0, l |-> <<>>]
IntV(k) == [t |-> "int", s |-> <<>>, n |-> k, l |-> <<>>]
ListV(items) == [t |-> "list", s |-> <<>>, n |-> 0, l |-> items]

\* bool(v)
Truthy(v) ==
    CASE v.t = "str" -> v.s # <<>>
      [] v.t = "int" -> v.n # 0
      [] v.t = "list" -> v.l # <<>>
      [] OTHER -> FALSE

---------------------------------------------------------------------------
(* QualityAssuranceAgent                                                   *)

VERIFY_THRESHOLD == 800
REVIEW_THRESHOLD == 450
\* addr_npi.lower()[:10]
AddrPrefixLen == 10

\* the decision with the threshold tests made strict
FinalStatusStrict(issues, combined, validation_status) ==
    IF issues # <<>> THEN "FAIL_QA"
    ELSE IF combined > VERIFY_THRESHOLD /\ validation_status = "PASS" THEN "VERIFIED"
    ELSE IF combined > REVIEW_THRESHOLD THEN "NEEDS_REVIEW"
    ELSE "REJECTED"

\* the decision with the confidence test placed before the hard-fail test
FinalStatusConfidenceFirst(issues, combined, validation_status) ==
    IF combined >= VERIFY_THRESHOLD /\ validation_status = "PASS" THEN "VERIFIED"
    ELSE IF issues # <<>> THEN "FAIL_QA"
    ELSE IF combined >= REVIEW_THRESHOLD THEN "NEEDS_REVIEW"
    ELSE "REJECTED"

\* classify, the "Decision" block
FinalStatus(issues, combined, validation_status) ==
    IF issues # <<>> THEN "FAIL_QA"
    ELSE IF combined >= VERIFY_THRESHOLD /\ validation_status = "PASS" THEN "VERIFIED"
    ELSE IF combined >= REVIEW_THRESHOLD THEN "NEEDS_REVIEW"
    ELSE "REJECTED"

\* norm.get("license_status", "").upper() not in ("ACTIVE", "")
LicenseNotActive(license_status) ==
    LET ls == IF license_status.t = "absent" THEN <<>> ELSE license_status.s
    IN  Upper(ls) \notin {<<"A","C","T","I","V","E">>, <<>>}

\* the "Signal consistency" block: npi and maps are the two sub-records of
\* enriched["enriched"]; each is [truthy, addr] where addr is
\* npi["addresses"][0]["address_1"] resp. maps["formatted_address"]
\* (Absent when the key, or the list item, is not there: the code then
\* uses "").
AddressMismatch(npi, maps) ==
    /\ npi.truthy /\ maps.truthy
    /\ Truthy(npi.addr) /\ Truthy(maps.addr)
    /\ ~Contains(Lower(maps.addr.s), Prefix(Lower(npi.addr.s), AddrPrefixLen))

ClassifyIssues(e) ==
    (IF LicenseNotActive(e.license_status) THEN <<"license_not_active">> ELSE <<>>)
    \o (IF ~Truthy(e.registration_number) THEN <<"missing_license_number">> ELSE <<>>)
    \o (IF AddressMismatch(e.npi, e.maps) THEN <<"address_mismatch_npi_maps">> ELSE <<>>)

ConfidenceBucket(combined) ==
    IF combined >= 800 THEN "HIGH" ELSE IF combined >= 450 THEN "MEDIUM" ELSE "LOW"

\* QualityAssuranceAgent.classify.  The record e is the enriched record as
\* classify reads it: combined_confidence, base_validation.validation_status,
\* base_validation.normalized.{license_status, registration_number},
\* enriched.{npi, maps}.  A license_status that is not a str (None) makes
\* .upper() raise: classify then returns nothing (final_status "RAISED").
Classify(e) ==
    IF e.license_status.t \notin {"absent", "str"}
    THEN [final_status |-> "RAISED", issues |-> <<>>,
          combined_confidence |-> e.combined,
          validation_status |-> e.validation_status,
          confidence_bucket |-> "NONE"]
    ELSE [final_status |-> FinalStatus(ClassifyIssues(e), e.combined, e.validation_status),
          issues |-> ClassifyIssues(e),
          combined_confidence |-> e.combined,
          validation_status |-> e.validation_status,
          confidence_bucket |-> ConfidenceBucket(e.combined)]


---------------------------------------------------------------------------
(* Inputs of the QA stage                                                  *)

LicenseInputs ==
    {Absent, NoneV, Str(<<>>), Str(<<"A","C","T","I","V","E">>), Str(<<"a","c","t","i","v","e">>), Str(<<"A","c","t","i","v","e">>),
     Str(<<"E","X","P","I","R","E","D">>), Str(<<"s","u","s","p","e","n","d","e","d">>)}
RegistrationInputs == {Absent, Str(<<>>), Str(<<"R","E","G","-","1","2","3">>)}
CombinedInputs == {0, 449, 450, 451, 799, 800, 801, 950, 1000}
ValidationStatusInputs == {"PASS", "PASS_WITH_GAPS", "FAIL", "UNKNOWN"}
NpiInputs ==
    {[truthy |-> FALSE, addr |-> Absent],
     [truthy |-> TRUE, addr |-> Absent],
     [truthy |-> TRUE, addr |-> Str(<<"1","2"," ","M","G"," ","R","o","a","d"," ","P","u","n","e">>)],
     [truthy |-> TRUE, addr |-> Str(<<"M","G"," ","R","o","a","d">>)]}
MapsInputs ==
    {[truthy |-> FALSE, addr |-> Absent],
     [truthy |-> TRUE, addr |-> Absent],
     [truthy |-> TRUE, addr |-> Str(<<"1","2"," ","m","g"," ","r","o","a","d"," ","p","u","n","e",","," ","M","H"," ","4","1","1","0","0","1">>)],
     [truthy |-> TRUE, addr |-> Str(<<"4","5"," ","P","a","r","k"," ","S","t","r","e","e","t"," ","K","o","l","k","a","t","a">>)],
     [truthy |-> TRUE, addr |-> Str(<<"N","e","a","r"," ","1","2"," ","M","G"," ","R","d",","," ","P","u","n","e">>)]}

\* base_validation.normalized.{license_issue_date, license_expiry_date} of
\* the record: keys a record may carry and classify does not read
LicenseDateInputs ==
    {[issue_date |-> Absent, expiry_date |-> Absent],
     [issue_date |-> Str(<<"J","a","n","u","a","r","y"," ","1",","," ","2","0","1","5">>), expiry_date |-> Str(<<"J","a","n","u","a","r","y"," ","1",","," ","2","0","2","0">>)],
     [issue_date |-> Str(<<"J","a","n","u","a","r","y"," ","1",","," ","2","0","1","5">>), expiry_date |-> Str(<<"D","e","c","e","m","b","e","r"," ","3","1",","," ","2","0","9","9">>)],
     [issue_date |-> Str(<<"J","a","n","u","a","r","y"," ","1",","," ","2","0","1","5">>), expiry_date |-> Str(<<"2","0","3","0","-","0","1","-","0","1">>)]}

EnrichedInputs ==
    [combined : CombinedInputs,
     license_dates : LicenseDateInputs,
     validation_status : ValidationStatusInputs,
     license_status : LicenseInputs,
     registration_number : RegistrationInputs,
     npi : NpiInputs,
     maps : MapsInputs]

NoResult ==
    [final_status |-> "NONE", issues |-> <<>>, combined_confidence |-> 0,
     validation_status |-> "NONE", confidence_bucket |-> "NONE"]
NoEnriched ==
    [combined |-> 0, validation_status |-> "UNKNOWN", license_status |-> Absent,
     license_dates |-> [issue_date |-> Absent, expiry_date |-> Absent],
     registration_number |-> Absent,
     npi |-> [truthy |-> FALSE, addr |-> Absent],
     maps |-> [truthy |-> FALSE, addr |-> Absent]]

---------------------------------------------------------------------------
(* More string operations, as the normalizers use them                     *)

\* "".join(c for c in s if keep(c)), for a set of characters to drop
RECURSIVE DropChars(_, _)
DropChars(s, drop) ==
    IF s = <<>> THEN <<>>
    ELSE (IF Head(s) \in drop THEN <<>> ELSE <<Head(s)>>) \o DropChars(Tail(s), drop)

\* "".join(re.findall(r"\d+", s)), also re.sub(r"\D", "", s)
RECURSIVE DigitsOf(_)
DigitsOf(s) ==
    IF s = <<>> THEN <<>>
    ELSE (IF IsDigit(Head(s)) THEN <<Head(s)>> ELSE <<>>) \o DigitsOf(Tail(s))

\* re.split(seps+, s) for single-character separators, resp. str.split()
\* when dropEmpty: the list of maximal runs of non-separator characters.
\* re.split keeps the empty pieces at the two ends; every caller strips the
\* pieces and drops the empty ones, so only the non-empty runs matter.
RECURSIVE SplitRuns(_, _, _)
SplitRuns(s, seps, cur) ==
    IF s = <<>> THEN (IF cur = <<>> THEN <<>> ELSE <<cur>>)
    ELSE IF Head(s) \in seps
         THEN (IF cur = <<>> THEN <<>> ELSE <<cur>>) \o SplitRuns(Tail(s), seps, <<>>)
         ELSE SplitRuns(Tail(s), seps, Append(cur, Head(s)))

\* str.split() with no argument
SplitWs(s) == SplitRuns(s, Whitespace, <<>>)
\* re.split(r"[,/;]+", s), without its empty pieces
ListSeps == {",", "/", ";"}
SplitList(s) == SplitRuns(s, ListSeps, <<>>)

\* sep.join(parts)
RECURSIVE Join(_, _)
Join(parts, sep) ==
    IF parts = <<>> THEN <<>>
    ELSE IF Len(parts) = 1 THEN parts[1]
    ELSE parts[1] \o sep \o Join(Tail(parts), sep)

\* [f(p) for p in parts if p.strip()] pattern: stripped non-empty pieces
RECURSIVE StrippedNonEmpty(_)
StrippedNonEmpty(parts) ==
    IF parts = <<>> THEN <<>>
    ELSE (IF Strip(Head(parts)) = <<>> THEN <<>> ELSE <<Strip(Head(parts))>>)
         \o StrippedNonEmpty(Tail(parts))

\* str.title(): a letter is upper-cased when no letter precedes it,
\* lower-cased otherwise
Title(s) ==
    [i \in 1..Len(s) |->
        IF IsAlpha(s[i])
        THEN (IF i = 1 \/ ~IsAlpha(s[i - 1]) THEN UpperChar(s[i]) ELSE LowerChar(s[i]))
        ELSE s[i]]

\* decimal digits of a natural number
RECURSIVE NatStr(_)
NatStr(k) ==
    LET d == <<"0","1","2","3","4","5","6","7","8","9">>[(k % 10) + 1]
    IN  IF k < 10 THEN <<d>> ELSE NatStr(k \div 10) \o <<d>>

\* value of a run of decimal digits
RECURSIVE DigitsVal(_)
DigitsVal(s) ==
    IF s = <<>> THEN 0
    ELSE DigitsVal(SubSeq(s, 1, Len(s) - 1)) * 10
         + (CHOOSE k \in 0..9 : NatStr(k) = <<s[Len(s)]>>)

\* repr of a list of str: ['a', 'b']
RECURSIVE ReprItems(_)
ReprItems(items) ==
    IF items = <<>> THEN <<>>
    ELSE <<"'">> \o Head(items) \o <<"'">>
         \o (IF Len(items) > 1 THEN <<",", " ">> ELSE <<>>) \o ReprItems(Tail(items))

\* str(v) for a value that is not None
PyStr(v) ==
    CASE v.t = "str" -> v.s
      [] v.t = "int" -> (IF v.n < 0 THEN <<"-">> \o NatStr(-v.n) ELSE NatStr(v.n))
      [] v.t = "list" -> <<"[">> \o ReprItems(v.l) \o <<"]">>
      [] OTHER -> <<"N","o","n","e">>

---------------------------------------------------------------------------
(* Normalizers.  Each takes a Python value and returns a Python value;     *)
(* Raised stands for an exception leaving the normalizer.                  *)

Raised == [t |-> "raised", s |-> <<>>, n |-> 0, l |-> <<>>]

Honorifics == {<<"d","r">>, <<"p","r","o","f">>, <<"m","r">>, <<"m","s">>, <<"m","r","s">>, <<"d","r","s">>}

\* length of the maximal run of word characters at the head of s
RECURSIVE WordRunLen(_)
WordRunLen(s) ==
    IF s # <<>> /\ IsWordChar(Head(s)) THEN 1 + WordRunLen(Tail(s)) ELSE 0

\* re.sub(r"\b(Dr|Dr\.|Prof|Mr|Ms|Mrs|Drs|Drs\.)\b", "", name, IGNORECASE):
\* a match starts and ends at a word boundary, so it is a whole run of word
\* characters (the alternatives with "\." never match before "Dr" does)
RECURSIVE RemoveHonorifics(_)
RemoveHonorifics(s) ==
    IF s = <<>> THEN <<>>
    ELSE IF IsWordChar(Head(s))
         THEN LET k == WordRunLen(s)
                  run == SubSeq(s, 1, k)
              IN  (IF Lower(run) \in Honorifics THEN <<>> ELSE run)
                  \o RemoveHonorifics(SubSeq(s, k + 1, Len(s)))
         ELSE <<Head(s)>> \o RemoveHonorifics(Tail(s))

\* re.sub(r"[^\w\s\-\.']", " ", s)
NameCharFilter(s) ==
    [i \in 1..Len(s) |->
        IF IsWordChar(s[i]) \/ s[i] \in Whitespace \/ s[i] \in {"-", ".", "'"}
        THEN s[i] ELSE " "]

TitleAll(parts) == [i \in 1..Len(parts) |-> Title(parts[i])]

normalize_name(v) ==
    IF ~Truthy(v) THEN Str(<<>>)
    ELSE IF v.t # "str" THEN Raised
    ELSE Str(Join(TitleAll(SplitWs(NameCharFilter(RemoveHonorifics(v.s)))), <<" ">>))

normalize_email(v) ==
    IF ~Truthy(v) THEN Str(<<>>)
    ELSE IF v.t # "str" THEN Raised
    ELSE Str(DropChars(Lower(Strip(v.s)), Whitespace))

normalize_phone(v) ==
    IF ~Truthy(v) THEN Str(<<>>)
    ELSE LET s == Strip(PyStr(v))
         IN  IF \E i \in 1..Len(s) : s[i] = "+"
             THEN Str(<<"+">> \o DigitsOf(s))
             ELSE Str(DigitsOf(s))

\* length of the maximal run of characters of set at the head of s
RECURSIVE RunLen(_, _)
RunLen(s, set) ==
    IF s # <<>> /\ Head(s) \in set THEN 1 + RunLen(Tail(s), set) ELSE 0

\* re.sub of every maximal run of characters of set, at least minLen long,
\* by one space
RECURSIVE ReplaceRuns(_, _, _)
ReplaceRuns(s, set, minLen) ==
    IF s = <<>> THEN <<>>
    ELSE IF Head(s) \in set
         THEN LET k == RunLen(s, set)
              IN  (IF k >= minLen THEN <<" ">> ELSE SubSeq(s, 1, k))
                  \o ReplaceRuns(SubSeq(s, k + 1, Len(s)), set, minLen)
         ELSE <<Head(s)>> \o ReplaceRuns(Tail(s), set, minLen)

normalize_address(v) ==
    IF ~Truthy(v) THEN Str(<<>>)
    ELSE Str(Strip(ReplaceRuns(ReplaceRuns(PyStr(v), {"\r", "\n", "\t"}, 1),
                               Whitespace, 2)))

\* [p.strip().upper().replace(".", "") for p in ... if p.strip()]
QualTokens(parts) ==
    [i \in 1..Len(parts) |-> DropChars(Upper(parts[i]), {"."})]

normalize_qualifications(v) ==
    IF ~Truthy(v) THEN ListV(<<>>)
    ELSE ListV(QualTokens(StrippedNonEmpty(SplitList(PyStr(v)))))

\* "".join(REGNO_RE.findall(s)): the characters of [A-Za-z0-9/\-\s]
RECURSIVE RegChars(_)
RegChars(s) ==
    IF s = <<>> THEN <<>>
    ELSE (IF IsAlpha(Head(s)) \/ IsDigit(Head(s)) \/ Head(s) \in {"/", "-"}
             \/ Head(s) \in Whitespace
          THEN <<Head(s)>> ELSE <<>>) \o RegChars(Tail(s))

normalize_registration(v) ==
    IF ~Truthy(v) THEN Str(<<>>)
    ELSE Str(Strip(RegChars(PyStr(v))))

\* DIGITS_RE.findall(s): the maximal runs of digits
RECURSIVE DigitRuns(_, _)
DigitRuns(s, cur) ==
    IF s = <<>> THEN (IF cur = <<>> THEN <<>> ELSE <<cur>>)
    ELSE IF IsDigit(Head(s)) THEN DigitRuns(Tail(s), Append(cur, Head(s)))
    ELSE (IF cur = <<>> THEN <<>> ELSE <<cur>>) \o DigitRuns(Tail(s), <<>>)

\* YEAR_RE at position i with a group of k digits:
\* (\d{k}) \s* (yr|year), case-insensitively
YearMatchAt(s, i, k) ==
    /\ i + k - 1 <= Len(s)
    /\ \A j \in i..(i + k - 1) : IsDigit(s[j])
    /\ LET rest == Lower(LStrip(SubSeq(s, i + k, Len(s))))
       IN  \/ Prefix(rest, 2) = <<"y","r">>
           \/ Prefix(rest, 4) = <<"y","e","a","r">>

\* the bound of the range test, were it past every three-digit number
ExperienceBoundWide == 999 + 1

ExperienceBound == 120

extract_experience_years(v) ==
    IF ~Truthy(v) THEN NoneV
    ELSE LET s == PyStr(v)
             runs == DigitRuns(s, <<>>)
             inRange == {i \in 1..Len(runs) : DigitsVal(runs[i]) < ExperienceBound}
             starts == {i \in 1..Len(s) : YearMatchAt(s, i, 2) \/ YearMatchAt(s, i, 1)}
         IN  IF inRange # {}
             THEN IntV(DigitsVal(runs[CHOOSE i \in inRange : \A j \in inRange : i <= j]))
             ELSE IF starts # {}
             THEN LET i == CHOOSE a \in starts : \A b \in starts : a <= b
                  IN  IntV(DigitsVal(SubSeq(s, i, IF YearMatchAt(s, i, 2) THEN i + 1 ELSE i)))
             ELSE NoneV

\* the specializations expression of run
NormalizeSpecializations(v) ==
    IF v.t = "list" THEN v
    ELSE IF Truthy(v) THEN ListV(StrippedNonEmpty(SplitList(PyStr(v))))
    ELSE ListV(<<>>)

---------------------------------------------------------------------------
(* Format confidence, in thousandths.  The argument is the normalized str. *)

\* _format_phone_confidence.  lib is what the optional phonenumbers library
\* says of the number: "valid", "possible", or "none" (library not
\* installed, parse error, or number neither valid nor possible), in which
\* case the digit-count heuristic decides.
_format_phone_confidence(phone, lib) ==
    IF phone = <<>> THEN 0
    ELSE IF lib = "valid" THEN 1000
    ELSE IF lib = "possible" THEN 800
    ELSE LET k == Len(DigitsOf(phone))
         IN  IF 10 <= k /\ k <= 15 THEN 800
             ELSE IF 7 <= k /\ k < 10 THEN 500
             ELSE 0

IsEmailLocalChar(c) == IsAlpha(c) \/ IsDigit(c) \/ c \in {".", "_", "%", "+", "-"}
IsEmailDomainChar(c) == IsAlpha(c) \/ IsDigit(c) \/ c \in {".", "-"}

\* EMAIL_RE.match(e): one or more of [A-Za-z0-9._%+-], an at-sign, one or
\* more of [A-Za-z0-9.-], a dot, two or more letters, end of string
EmailMatches(e) ==
    \E at \in 1..Len(e) : \E dot \in (at + 2)..Len(e) :
        /\ e[at] = "@" /\ e[dot] = "."
        /\ at >= 2
        /\ \A i \in 1..(at - 1) : IsEmailLocalChar(e[i])
        /\ \A i \in (at + 1)..(dot - 1) : IsEmailDomainChar(e[i])
        /\ Len(e) - dot >= 2
        /\ \A i \in (dot + 1)..Len(e) : IsAlpha(e[i])

\* the at-sign is in email and "." in email.split(at-sign)[-1]
EmailLoose(e) ==
    \E at \in 1..Len(e) :
        /\ e[at] = "@"
        /\ \A i \in (at + 1)..Len(e) : e[i] # "@"
        /\ \E i \in (at + 1)..Len(e) : e[i] = "."

_format_email_confidence(email) ==
    LET e == Strip(email)
    IN  IF email = <<>> THEN 0
        ELSE IF EmailMatches(e) THEN 1000
        ELSE IF EmailLoose(e) THEN 600
        ELSE 0

_format_name_confidence(name) ==
    LET parts == SplitWs(name)
    IN  IF name = <<>> THEN 0
        ELSE IF Len(parts) >= 2 /\ Len(parts[1]) > 1 /\ Len(parts[2]) > 1 THEN 1000
        ELSE 600

StreetKeywords ==
    {<<"s","t","r","e","e","t">>, <<"s","t">>, <<"r","o","a","d">>, <<"r","d">>, <<"l","a","n","e">>, <<"l","n">>, <<"a","v","e","n","u","e">>, <<"a","v","e">>, <<"b","l","o","c","k">>,
     <<"s","e","c","t","o","r">>, <<"s","e","c","t","o","r","-">>}

Min(a, b) == IF a < b THEN a ELSE b
Max(a, b) == IF a > b THEN a ELSE b

_format_address_confidence(address) ==
    LET a == Strip(address)
        score == (IF \E k \in StreetKeywords : Contains(Lower(a), k) THEN 500 ELSE 0)
                 + (IF \E i \in 1..Len(a) : IsDigit(a[i]) THEN 300 ELSE 0)
                 + (IF \E i \in 1..Len(a) : a[i] = "," THEN 200 ELSE 0)
    IN  IF address = <<>> THEN 0 ELSE Min(score, 1000)

\* re.search(r"[A-Z]{1,5}\s*[-]?\s*\d{2,8}", r, IGNORECASE): a letter, then
\* optional blanks, an optional hyphen, optional blanks, then two digits
RegPatternAt(r, i) ==
    /\ IsAlpha(r[i])
    /\ LET a == LStrip(SubSeq(r, i + 1, Len(r)))
           b == IF a # <<>> /\ Head(a) = "-" THEN LStrip(Tail(a)) ELSE a
           TwoDigits(x) == Len(x) >= 2 /\ IsDigit(x[1]) /\ IsDigit(x[2])
       IN  TwoDigits(a) \/ TwoDigits(b)

_format_registration_confidence(reg) ==
    LET r == Strip(reg)
    IN  IF reg = <<>> THEN 0
        ELSE IF \E i \in 1..Len(r) : RegPatternAt(r, i) THEN 1000
        ELSE IF (\E i \in 1..Len(r) : IsDigit(r[i])) /\ (\E i \in 1..Len(r) : IsAlpha(r[i]))
        THEN 600
        ELSE 0

---------------------------------------------------------------------------
(* Field maps (csv_row, extracted_json): a function from every key the     *)
(* agent looks at to the value stored under it, Absent when the map has    *)
(* no such key.  The map with no key stands for both None and {}; the      *)
(* agent only ever tests "if csv_row".                                      *)

Keys ==
    {"name", "provider_name", "full_name",
     "phone", "phone_number", "contact", "mobile",
     "email", "email_address", "contact_email",
     "address", "location", "addr", "clinic_address",
     "qualifications", "qualification", "degree",
     "registration_number", "registration", "reg_no", "regnum",
     "specializations", "speciality", "specialties",
     "experience_years", "experience", "exp"}

EmptyMap == [k \in Keys |-> Absent]
\* bool(d)
MapTruthy(d) == \E k \in Keys : d[k].t # "absent"

\* source = {}; source.update(extracted_json); source.update(csv_row)
MergeSources(csv_row, extracted_json) ==
    [k \in Keys |-> IF csv_row[k].t # "absent" THEN csv_row[k] ELSE extracted_json[k]]

\* v in (None, "")
IsNoneOrEmptyStr(v) == v.t = "none" \/ (v.t = "str" /\ v.s = <<>>)
\* v in (None, "", [])
IsNoneOrEmpty(v) == IsNoneOrEmptyStr(v) \/ (v.t = "list" /\ v.l = <<>>)

\* get_field of run: the first key of keys that source holds with a value
\* other than None and "", else ""
RECURSIVE get_field(_, _)
get_field(source, keys) ==
    IF keys = <<>> THEN Str(<<>>)
    ELSE IF source[Head(keys)].t # "absent" /\ ~IsNoneOrEmptyStr(source[Head(keys)])
         THEN source[Head(keys)]
         ELSE get_field(source, Tail(keys))

---------------------------------------------------------------------------
(* Source confidence (CSV vs PDF), in thousandths                          *)

\* field_name.replace("clinic_", ""), on the field names run passes
StripClinic(field_name) ==
    IF field_name = "clinic_address" THEN "address" ELSE field_name

\* possible_pdf_keys
PossiblePdfKeys(field_name) ==
    <<field_name, StripClinic(field_name), "mobile", "contact", "phone_number">>

\* the loop over possible_pdf_keys: the first value that is there and is
\* not None, "" or []; None when there is none
RECURSIVE FirstPdfValue(_, _)
FirstPdfValue(pdf_json, keys) ==
    IF keys = <<>> THEN NoneV
    ELSE IF pdf_json[Head(keys)].t # "absent" /\ ~IsNoneOrEmpty(pdf_json[Head(keys)])
         THEN pdf_json[Head(keys)]
         ELSE FirstPdfValue(pdf_json, Tail(keys))

\* csv_val of _source_confidence_for_field
CsvValue(field_name, csv_row) ==
    IF MapTruthy(csv_row) /\ csv_row[field_name].t # "absent"
    THEN csv_row[field_name] ELSE NoneV

\* pdf_val of _source_confidence_for_field
PdfValue(field_name, pdf_json) ==
    IF MapTruthy(pdf_json) THEN FirstPdfValue(pdf_json, PossiblePdfKeys(field_name))
    ELSE NoneV

\* norm(x) of _source_confidence_for_field: None stays None (here: NoneV),
\* anything else becomes str(x).strip().lower()
SrcNorm(v) ==
    IF v.t \in {"none", "absent"} THEN NoneV ELSE Str(Lower(Strip(PyStr(v))))

\* the scoring table with the conflict case left out: two different
\* values score as a partial match
AgreementNoConflict(n_csv, n_pdf, n_norm) ==
    IF Truthy(n_csv) /\ Truthy(n_pdf)
    THEN (IF n_csv = n_pdf THEN 950 ELSE 850)
    ELSE IF Truthy(n_csv) THEN (IF n_csv = n_norm THEN 880 ELSE 800)
    ELSE IF Truthy(n_pdf) THEN (IF n_pdf = n_norm THEN 750 ELSE 600)
    ELSE 0

\* the scoring table of _source_confidence_for_field on the three
\* normalized-for-comparison values
Agreement(n_csv, n_pdf, n_norm) ==
    IF Truthy(n_csv) /\ Truthy(n_pdf)
    THEN (IF n_csv = n_pdf THEN 950
          ELSE IF n_csv = n_norm \/ n_pdf = n_norm THEN 850
          ELSE 400)
    ELSE IF Truthy(n_csv) THEN (IF n_csv = n_norm THEN 880 ELSE 800)
    ELSE IF Truthy(n_pdf) THEN (IF n_pdf = n_norm THEN 750 ELSE 600)
    ELSE 0

\* normalized_value is the str run passes
_source_confidence_for_field(field_name, csv_row, pdf_json, normalized_value) ==
    Agreement(SrcNorm(CsvValue(field_name, csv_row)),
              SrcNorm(PdfValue(field_name, pdf_json)),
              SrcNorm(Str(normalized_value)))

---------------------------------------------------------------------------
(* DataValidationAgent.run                                                 *)

\* insertion order of format_conf, which the scoring loop follows
Fields ==
    <<"name", "phone", "email", "address", "registration", "qualifications",
      "experience_years", "specializations">>
FieldSet == {Fields[i] : i \in 1..Len(Fields)}

\* weight_map of run, in thousandths; a field outside it weighs nothing
WeightMap ==
    [f \in FieldSet |->
        CASE f = "name" -> 250
          [] f = "phone" -> 200
          [] f = "email" -> 150
          [] f = "address" -> 200
          [] f = "registration" -> 100
          [] f = "qualifications" -> 50
          [] OTHER -> 0]

RECURSIVE SumOver(_, _)
SumOver(f, set) ==
    IF set = {} THEN 0
    ELSE LET x == CHOOSE y \in set : TRUE IN f[x] + SumOver(f, set \ {x})

\* total_w, were the weights taken to add up to 1.0 (the table's 0.95
\* and the 0.05 it leaves out)
TotalWeightOne == 950 + 50

\* total_w = sum(weight_map.values())
TotalWeight == SumOver(WeightMap, FieldSet)

\* round(a / b) to the nearest integer, ties to even, for a >= 0 and b > 0
RoundDiv(a, b) ==
    LET q == a \div b
        r == a % b
    IN  IF 2 * r > b THEN q + 1
        ELSE IF 2 * r < b THEN q
        ELSE IF q % 2 = 0 THEN q ELSE q + 1

\* the weighted blend without the clamp, cut off only below zero so that it
\* stays a score
FinalFieldScoreUnclamped(w, src, fmt) == Max(0, w.source * src + w.format * fmt)

\* final_field_score of the loop, in ten-thousandths:
\* max(0.0, min(1.0, w_source * src + w_format * fmt))
FinalFieldScore(w, src, fmt) ==
    Max(0, Min(10000, w.source * src + w.format * fmt))

\* the flags with the missing test made an "or" of the two zero tests
IsMissingEither(final, src, fmt) == final < 5000 /\ (src = 0 \/ fmt = 0)

\* "record missing if completely absent", inside "if final_field_score < 0.5"
IsMissing(final, src, fmt) == final < 5000 /\ src = 0 /\ fmt = 0

\* the flags, were a blended score of exactly 0.5 still flagged
FlagsOfInclusive(final, src, fmt) ==
    IF final <= 5000
    THEN <<"low_confidence">>
         \o (IF fmt = 0 THEN <<"format_invalid">> ELSE <<>>)
         \o (IF src = 0 THEN <<"source_missing">> ELSE <<>>)
    ELSE <<>>

\* validation_flags[field], as the list of its "|"-separated tokens;
\* empty when the field has no entry
FlagsOf(final, src, fmt) ==
    IF final < 5000
    THEN <<"low_confidence">>
         \o (IF fmt = 0 THEN <<"format_invalid">> ELSE <<>>)
         \o (IF src = 0 THEN <<"source_missing">> ELSE <<>>)
    ELSE <<>>

RECURSIVE FilterSeq(_, _)
FilterSeq(seq, keep) ==
    IF seq = <<>> THEN <<>>
    ELSE (IF Head(seq) \in keep THEN <<Head(seq)>> ELSE <<>>) \o FilterSeq(Tail(seq), keep)

RaisedRecord ==
    [raised |-> TRUE, provider_id |-> "", normalized |-> <<>>,
     format_confidence |-> <<>>, source_confidence |-> <<>>,
     field_confidence |-> <<>>, validation_flags |-> <<>>,
     missing_fields |-> <<>>, overall_confidence |-> 0, status |-> "NONE"]

\* run, "get raw fields" and "normalize": the normalized record
NormalizedFields(csv_row, extracted_json) ==
    LET source == MergeSources(csv_row, extracted_json)
        raw_qual == get_field(source, <<"qualifications", "qualification", "degree">>)
        raw_exp == get_field(source, <<"experience_years", "experience", "exp">>)
    IN  [name |-> normalize_name(
                      get_field(source, <<"name", "provider_name", "full_name">>)),
         phone |-> normalize_phone(
                      get_field(source, <<"phone", "phone_number", "contact", "mobile">>)),
         email |-> normalize_email(
                      get_field(source, <<"email", "email_address", "contact_email">>)),
         address |-> normalize_address(
                      get_field(source, <<"address", "location", "addr", "clinic_address">>)),
         qualifications |-> IF Truthy(raw_qual) THEN normalize_qualifications(raw_qual)
                            ELSE ListV(<<>>),
         registration_number |-> normalize_registration(
                      get_field(source, <<"registration_number", "registration", "reg_no",
                                          "regnum">>)),
         specializations |-> NormalizeSpecializations(
                      get_field(source, <<"specializations", "speciality", "specialties">>)),
         experience_years |-> IF Truthy(raw_exp) THEN extract_experience_years(raw_exp)
                              ELSE NoneV]

\* run, "format confidences": format_conf of the normalized record nz
FormatConf(nz, lib) ==
    [f \in FieldSet |->
        CASE f = "name" -> _format_name_confidence(nz.name.s)
          [] f = "phone" -> _format_phone_confidence(nz.phone.s, lib)
          [] f = "email" -> _format_email_confidence(nz.email.s)
          [] f = "address" -> _format_address_confidence(nz.address.s)
          [] f = "registration" -> _format_registration_confidence(nz.registration_number.s)
          [] f = "qualifications" -> (IF nz.qualifications.l # <<>> THEN 1000 ELSE 0)
          [] f = "experience_years" -> (IF nz.experience_years.t = "int" THEN 1000 ELSE 0)
          [] f = "specializations" -> (IF nz.specializations.l # <<>> THEN 1000 ELSE 0)]

\* run, "source confidences (csv vs pdf)": source_conf
SourceConf(nz, csv_row, extracted_json) ==
    [f \in FieldSet |->
        CASE f = "name" ->
                _source_confidence_for_field("name", csv_row, extracted_json, nz.name.s)
          [] f = "phone" ->
                _source_confidence_for_field("phone", csv_row, extracted_json, nz.phone.s)
          [] f = "email" ->
                _source_confidence_for_field("email", csv_row, extracted_json, nz.email.s)
          [] f = "address" ->
                _source_confidence_for_field("clinic_address", csv_row, extracted_json,
                                             nz.address.s)
          [] f = "registration" ->
                _source_confidence_for_field("registration_number", csv_row,
                                             extracted_json, nz.registration_number.s)
          [] f = "qualifications" ->
                _source_confidence_for_field("qualifications", csv_row, extracted_json,
                                             Join(nz.qualifications.l, <<",">>))
          [] f = "experience_years" ->
                _source_confidence_for_field(
                    "experience_years", csv_row, extracted_json,
                    IF nz.experience_years.t = "int" THEN NatStr(nz.experience_years.n)
                    ELSE <<>>)
          [] f = "specializations" ->
                _source_confidence_for_field("specializations", csv_row, extracted_json,
                                             Join(nz.specializations.l, <<",">>))]

\* run, the scoring loop, the overall confidence and the record, from the
\* normalized record nz and the two score maps
ScoredRecord(provider_id, nz, format_conf, source_conf, w) ==
    LET final == [f \in FieldSet |-> FinalFieldScore(w, source_conf[f], format_conf[f])]
        field_confidence == [f \in FieldSet |-> RoundDiv(final[f], 10)]
        overall == SumOver([f \in FieldSet |-> field_confidence[f] * WeightMap[f]], FieldSet)
    IN  [raised |-> FALSE,
         provider_id |-> provider_id,
         normalized |-> nz,
         format_confidence |-> format_conf,
         source_confidence |-> source_conf,
         field_confidence |-> field_confidence,
         validation_flags |->
             [f \in FieldSet |-> FlagsOf(final[f], source_conf[f], format_conf[f])],
         missing_fields |->
             FilterSeq(Fields, {f \in FieldSet :
                                   IsMissing(final[f], source_conf[f], format_conf[f])}),
         overall_confidence |-> RoundDiv(overall, TotalWeight),
         status |-> "PENDING"]

\* The record run builds (everything of run before "persist").  w is
\* FINAL_CONF_WEIGHTS, lib the phonenumbers answer for the normalized phone.
\* normalize_name and normalize_email raise on a value that is not a str.
ValidatedRecord(provider_id, csv_row, extracted_json, w, lib) ==
    LET Build(nz) ==
            IF Raised \in {nz.name, nz.email} THEN RaisedRecord
            ELSE ScoredRecord(provider_id, nz, FormatConf(nz, lib),
                              SourceConf(nz, csv_row, extracted_json), w)
    IN  Build(NormalizedFields(csv_row, extracted_json))

---------------------------------------------------------------------------
(* Inputs of the validation stage                                          *)

Pids == {"P1", "P2"}

\* the field map holding the pairs of f, a function from some keys to values
MapOf(f) == [k \in Keys |-> IF k \in DOMAIN f THEN f[k] ELSE Absent]

CsvInputs ==
    {EmptyMap,
     MapOf("phone" :> Str(<<"9","8","7","6","5","4","3","2","1","0">>)),
     MapOf("phone" :> Str(<<"+","9","1"," ","9","9","8","8","7","7","6","6","5","5">>)),
     MapOf("phone" :> Str(<<"9","8","7","6","5","-","4","3","2","1","0">>) @@ "name" :> Str(<<"D","r","."," ","A","n","i","l"," ","K","u","m","a","r">>)
           @@ "email" :> Str(<<"A","n","i","l","@","E","x","a","m","p","l","e",".","c","o","m"," ">>)),
     MapOf("name" :> Str(<<"A","n","i","l"," ","K","u","m","a","r">>) @@ "phone" :> Str(<<"9","8","7","6","5","4","3","2","1","0">>)
           @@ "email" :> Str(<<"a","n","i","l","@","e","x","a","m","p","l","e",".","c","o","m">>)
           @@ "clinic_address" :> Str(<<"1","2"," ","M","G"," ","R","o","a","d",","," ","P","u","n","e">>)
           @@ "registration_number" :> Str(<<"M","H","-","1","2","3","4","5">>)
           @@ "qualifications" :> Str(<<"M","B","B","S",","," ","M","D">>)
           @@ "experience_years" :> Str(<<"1","0"," ","y","e","a","r","s">>)
           @@ "specializations" :> Str(<<"C","a","r","d","i","o","l","o","g","y">>)),
     MapOf("phone" :> Str(<<>>) @@ "name" :> NoneV @@ "email" :> Str(<<"a","n","i","l"," ","a","t"," ","e","x","a","m","p","l","e">>)),
     MapOf("provider_name" :> Str(<<"A"," ","K","u","m","a","r">>) @@ "address" :> Str(<<"P","u","n","e">>)
           @@ "reg_no" :> Str(<<"1","2","3","4","5">>)),
     MapOf("name" :> Str(<<"!","!","!">>) @@ "phone" :> Str(<<"a","b","c">>) @@ "email" :> IntV(0)
           @@ "address" :> ListV(<<<<"a">>>>) @@ "registration_number" :> IntV(12345)
           @@ "qualifications" :> ListV(<<<<"M","B","B","S">>>>) @@ "specializations" :> IntV(5)
           @@ "experience_years" :> Str(<<"1","5","0"," ","y","r","s">>)),
     MapOf("name" :> IntV(123) @@ "phone" :> IntV(98765) @@ "experience_years" :> IntV(7))}

PdfInputs ==
    {EmptyMap,
     MapOf("mobile" :> Str(<<"+","9","1","-","9","8","7","6","5","4","3","2","1","0">>)),
     MapOf("mobile" :> Str(<<"9","8","7","6","5","4","3","2","0","0">>)),
     MapOf("mobile" :> Str(<<"6","2","0","2","7","7","5","9","6","9">>)),
     MapOf("phone" :> Str(<<"9","8","7","6","5"," ","4","3","2","1","0">>) @@ "name" :> Str(<<"a","n","i","l"," ","k","u","m","a","r">>)),
     MapOf("name" :> Str(<<"D","R"," ","A","N","I","L"," ","K","U","M","A","R">>) @@ "phone" :> Str(<<"9","8","7","6","5","4","3","2","1","0">>)
           @@ "email" :> Str(<<"a","n","i","l","@","e","x","a","m","p","l","e",".","c","o","m">>)
           @@ "address" :> Str(<<"1","2"," ","M","G"," ","R","o","a","d",",","\n","P","u","n","e">>)
           @@ "registration_number" :> Str(<<"M","H"," ","1","2","3","4","5">>)
           @@ "qualifications" :> Str(<<"M",".","B",".","B",".","S","/","M","D">>)
           @@ "experience" :> Str(<<"1","0">>)
           @@ "specializations" :> ListV(<<<<"C","a","r","d","i","o","l","o","g","y">>>>)),
     MapOf("contact" :> Str(<<"1","2","3","4","5">>) @@ "email" :> Str(<<"i","n","f","o","@","c","l","i","n","i","c">>)
           @@ "registration_number" :> Str(<<"A","1">>)),
     MapOf("email" :> ListV(<<<<"a","@","b",".","c","o">>>>) @@ "experience" :> Str(<<"a","b","c">>))}

\* weights are multiples of 0.5 from -0.5 up to MaxWeightStep * 0.5
MaxWeightStep == 3
WeightInputs ==
    [source : {5 * k : k \in (-1)..MaxWeightStep},
     format : {5 * k : k \in (-1)..MaxWeightStep}]
\* FINAL_CONF_WEIGHTS = {"source": 0.5, "format": 0.5}
DefaultWeights == [source |-> 5, format |-> 5]

PhoneLibInputs == {"valid", "possible", "none"}

NoRecord == [RaisedRecord EXCEPT !.raised = FALSE]

---------------------------------------------------------------------------
(* Enrichment stage: the three services and Enricher.enrich_provider.      *)
(* A component score is an integer number of ten-thousandths (0.35 is      *)
(* 3500), an enrichment weight an integer number of hundredths (0.4 is     *)
(* 40); confidences of the enriched record are thousandths.                *)

ENRICH_WEIGHTS == [npi |-> 40, maps |-> 35, scraper |-> 25]

\* NPIRegistryService.SYNTHETIC: the npi numbers and the lower-cased first
\* names of the built-in records
SyntheticNpis == {<<"1","4","2","7","5","5","7","8","9","3">>, <<"1","8","8","1","9","3","7","4","6","5">>}
SyntheticFirstNames == {<<"j","o","h","n">>, <<"e","m","i","l","y">>}

\* what _safe_call hands back when the service call raised: None
NoAnswer == [kind |-> "none", found |-> FALSE, score |-> 0, proof |-> FALSE]
\* a dict answer of a service
Answer(found, score, proof) ==
    [kind |-> "dict", found |-> found, score |-> score, proof |-> proof]

\* NPIRegistryService.search by way of _smart_search and _request: found
\* only if the direct or the proxied request came back 200 with results
SearchFound(http) == http = "results"

\* NPIRegistryService.get_best_match(provider_name, ..., npi_number), by
\* way of Enricher._safe_call.  reg is what the registry does: http is
\* "unreachable" (every request raises or is not 200), "no_results",
\* "bad_json" (a 200 answer that is no JSON object: search raises) or
\* "results"; best_score is round(best_score, 3) of the name search.
get_best_match(provider_name, npi_number, reg) ==
    IF npi_number # <<>>
    THEN IF reg.http = "bad_json" THEN NoAnswer
         ELSE IF SearchFound(reg.http) THEN Answer(TRUE, 10000, FALSE)
         ELSE IF npi_number \in SyntheticNpis THEN Answer(TRUE, 9500, FALSE)
         ELSE Answer(TRUE, 5000, FALSE)
    ELSE IF provider_name = <<>> THEN Answer(FALSE, 0, FALSE)
    ELSE IF SplitWs(provider_name) = <<>> \/ reg.http = "bad_json" THEN NoAnswer
    ELSE IF ~SearchFound(reg.http)
         THEN IF Lower(SplitWs(provider_name)[1]) \in SyntheticFirstNames
              THEN Answer(TRUE, 9000, FALSE)
              ELSE Answer(FALSE, 0, FALSE)
    ELSE Answer(TRUE, reg.best_score, FALSE)

\* GoogleMapsService.enrich_provider_location(name, address), by way of
\* _safe_call.  mp is what the maps service does: http is "error" (the
\* call raises), "unreachable" (_get gives {} for every url), "geocode"
\* (no place, the address geocodes), "place" (place found, no details) or
\* "details" (place and details found); name_match and addr_match are the
\* two fuzzy ratios (ten-thousandths), website whether details has one.
enrich_provider_location(name, address, mp) ==
    IF mp.http = "error" THEN NoAnswer
    ELSE IF mp.http = "unreachable" \/ (name = <<>> /\ address = <<>>)
         THEN Answer(FALSE, 0, FALSE)
    ELSE IF mp.http = "geocode"
         THEN IF address = <<>> THEN Answer(FALSE, 0, FALSE)
              ELSE Answer(FALSE, 3500, FALSE)
    ELSE LET nm == IF name = <<>> THEN 0 ELSE mp.name_match
             am == IF address = <<>> \/ mp.http = "place" THEN 0 ELSE mp.addr_match
             ws == IF mp.http = "details" /\ mp.website THEN 1500 ELSE 0
             score == 4000 + (20 * nm) \div 100 + (25 * am) \div 100 + ws
         IN  Answer(TRUE, IF score < 10000 THEN score ELSE 10000,
                    mp.http = "details")

\* the score enrich_provider gives one scrape result: ds * 0.7 + hs * 0.3,
\* raised by 0.1 (up to 1.0) when the doctor has a structured profile.
\* ds and hs are the doctor and hospital scores of the result, thousandths.
ScrapeScore(res) ==
    LET score == 7 * res.ds + 3 * res.hs
    IN  IF res.structured
        THEN (IF score + 1000 < 10000 THEN score + 1000 ELSE 10000)
        ELSE score

\* the loop of enrich_provider over the candidate urls i..n: the result and
\* score of the last url that answered, stopping at a score of 0.5 or more.
\* answers[i] is what WebsiteScraper.scrape gives for the i-th candidate
\* ("error": the call raises, _safe_call gives None).
RECURSIVE ScrapeLoop(_, _, _, _)
ScrapeLoop(answers, i, n, acc) ==
    IF i > n THEN acc
    ELSE IF answers[i].kind = "error" THEN ScrapeLoop(answers, i + 1, n, acc)
    ELSE IF ScrapeScore(answers[i]) >= 5000
         THEN [found |-> TRUE, score |-> ScrapeScore(answers[i])]
         ELSE ScrapeLoop(answers, i + 1, n,
                         [found |-> TRUE, score |-> ScrapeScore(answers[i])])

\* reg = normalized.registration_number or source.raw_extracted.registration_number
RegistrationOf(rec) == IF rec.reg # <<>> THEN rec.reg ELSE rec.raw_reg

\* the sum of the weighted component scores, not clamped (millionths)
WeightedSum(w, npi_score, maps_score, scraper_score) ==
    w.npi * npi_score + w.maps * maps_score + w.scraper * scraper_score

\* out["combined_confidence"] = round(min(1.0, combined), 3)
CombinedConfidence(w, npi_score, maps_score, scraper_score) ==
    RoundDiv(Min(1000000, WeightedSum(w, npi_score, maps_score, scraper_score)), 1000)

\* the "simple decision" on the enriched record
EnrichStatus(combined_confidence) ==
    IF combined_confidence >= 850 THEN "VERIFIED"
    ELSE IF combined_confidence >= 500 THEN "REVIEW"
    ELSE "PENDING"

\* what a failed call leaves: enrich_provider raised
RaisedEnriched ==
    [raised |-> TRUE, provider_id |-> "", npi |-> NoAnswer, maps |-> NoAnswer,
     scrape_found |-> FALSE,
     component_confidences |-> [npi |-> 0, maps |-> 0, scraper |-> 0],
     combined_confidence |-> 0, status |-> "NONE"]

\* Enricher.enrich_provider(provider_id, validated_record) with the three
\* services enabled.  rec is the validated record as the method reads it:
\* name, address and reg are normalized.{name, address,
\* registration_number}, raw_reg is source.raw_extracted.registration_number,
\* urls the number of candidate urls _pick_candidate_urls finds, spec_ok
\* whether normalized.specializations holds only strings (",".join raises
\* otherwise).  The fallback scrape of normalized.website never runs: it
\* needs an empty candidate list, and a website there is a candidate.
EnrichProvider(provider_id, rec, svc, w) ==
    IF ~rec.spec_ok THEN RaisedEnriched
    ELSE
    LET npi_result == get_best_match(rec.name, RegistrationOf(rec), svc.registry)
        maps_result == enrich_provider_location(rec.name, rec.address, svc.maps)
        n_urls == rec.urls + (IF maps_result.proof THEN 1 ELSE 0)
        scr == ScrapeLoop(svc.scraper, 1, n_urls, [found |-> FALSE, score |-> 0])
        cc == CombinedConfidence(w, npi_result.score, maps_result.score, scr.score)
    IN  [raised |-> FALSE,
         provider_id |-> provider_id,
         npi |-> npi_result,
         maps |-> maps_result,
         scrape_found |-> scr.found,
         component_confidences |->
             [npi |-> RoundDiv(npi_result.score, 10),
              maps |-> RoundDiv(maps_result.score, 10),
              scraper |-> RoundDiv(scr.score, 10)],
         combined_confidence |-> cc,
         status |-> EnrichStatus(cc)]

---------------------------------------------------------------------------
(* The three state machines.  Each leaves the variables of the other two   *)
(* at their idle values.                                                   *)

QaIdle == qa_enriched = NoEnriched /\ qa_result = NoResult
ValIdle ==
    /\ weights = DefaultWeights /\ phone_lib = "none"
    /\ val_csv = EmptyMap /\ val_pdf = EmptyMap
    /\ val_record = NoRecord
    /\ validated = [p \in Pids |-> NoRecord]
    /\ exp_text = Absent /\ exp_years = Absent
StoreIdle ==
    /\ store_kind = "none"
    /\ dir = <<>>
    /\ inodes = <<>>
    /\ wr = <<>>
EnrIdle ==
    /\ enr_rec = <<>> /\ enr_svc = <<>>
    /\ enr_weights = <<>> /\ enr_out = <<>> /\ enr_run = <<>>
PipeIdle ==
    /\ st_validated = <<>> /\ st_enriched = <<>> /\ st_qa = <<>>
    /\ svc_outcome = <<>> /\ batch = <<>> /\ ret = <<>>
    /\ progress = 0

(* QA stage: classify applied to one enriched record *)

InitQA ==
    /\ qa_enriched \in EnrichedInputs
    /\ qa_result = NoResult
    /\ ValIdle /\ StoreIdle /\ EnrIdle /\ PipeIdle

\* qa_result = qa.classify(record)
ClassifyRecord ==
    /\ qa_result.final_status = "NONE"
    /\ qa_result' = Classify(qa_enriched)
    /\ UNCHANGED <<qa_enriched, valVars, storeVars, enrVars, pipeVars>>

NextQA == ClassifyRecord
SpecQA == InitQA /\ [][NextQA]_vars

(* Validation stage: run applied to one pair of field maps, for either     *)
(* provider id, persisting into the validated store                        *)

InitVal ==
    /\ weights \in WeightInputs
    /\ phone_lib \in PhoneLibInputs
    /\ val_csv \in CsvInputs
    /\ val_pdf \in PdfInputs
    /\ val_record = NoRecord
    /\ validated = [p \in Pids |-> NoRecord]
    /\ exp_text = Absent /\ exp_years = Absent
    /\ QaIdle /\ StoreIdle /\ EnrIdle /\ PipeIdle

\* DataValidationAgent.run(provider_id, csv_row, extracted_json), the store
\* file being readable and no other writer running: existing =
\* _load_existing(); existing[provider_id] = validated_record;
\* _atomic_write(path, existing).  An exception leaves the store as it was.
Run(provider_id) ==
    /\ val_record' = ValidatedRecord(provider_id, val_csv, val_pdf, weights, phone_lib)
    /\ validated' = IF val_record'.raised THEN validated
                    ELSE [validated EXCEPT ![provider_id] = val_record']
    /\ UNCHANGED <<weights, phone_lib, val_csv, val_pdf, exp_text, exp_years,
                   qaVars, storeVars, enrVars, pipeVars>>

NextVal == \E p \in Pids : Run(p)
SpecVal == InitVal /\ [][NextVal]_vars

(* extract_experience_years applied to one raw value (SpecExp)             *)

\* raw experience texts: every text of at most MaxExpLen characters over
\* digits, the letters of "yr" and the blank
MaxExpLen == 5
ExpChars == {"0", "1", "2", "y", "r", " "}
ExpTexts == UNION {[1..n -> ExpChars] : n \in 0..MaxExpLen}

\* raw values: None, numbers and texts
ExpInputs ==
    {NoneV, IntV(0), IntV(7), IntV(150)} \cup {Str(t) : t \in ExpTexts}

InitExp ==
    /\ exp_text \in ExpInputs
    /\ exp_years = Absent
    /\ weights = DefaultWeights /\ phone_lib = "none"
    /\ val_csv = EmptyMap /\ val_pdf = EmptyMap
    /\ val_record = NoRecord
    /\ validated = [p \in Pids |-> NoRecord]
    /\ QaIdle /\ StoreIdle /\ EnrIdle /\ PipeIdle

\* exp_years = extract_experience_years(exp_text)
ExtractExperience ==
    /\ exp_years = Absent
    /\ exp_years' = extract_experience_years(exp_text)
    /\ UNCHANGED <<weights, phone_lib, val_csv, val_pdf, val_record, validated, exp_text,
                   qaVars, storeVars, enrVars, pipeVars>>

NextExp == ExtractExperience
SpecExp == InitExp /\ [][NextExp]_vars

---------------------------------------------------------------------------
(* Stage stores on disk, with concurrent writers (SpecStore).              *)
(*                                                                         *)
(* All writers of a run share one stage store (store_kind).  Writer w      *)
(* persists the record of provider w.  A store mapping gives, for each     *)
(* provider, 0 (no record) or the writer that produced its record.  A file *)
(* is an inode holding the chunks written to it; json.dump of a mapping    *)
(* reaches the file in NChunks write calls.                                *)

NWriters == 2
NChunks == 2
Writers == 1..NWriters
StoreKinds == {"validated", "enriched", "qa"}

EmptyMapping == [p \in Writers |-> 0]

\* paths of the store directory: the store file, the fixed temporary name
\* path + ".tmp" of the QA writer, and the unique name mkstemp gives writer w
DestPath == 0
FixedTmpPath == NWriters + 1
MkstempPath(w) == w
Paths == 0..(NWriters + 1)

\* json.dump(data, f): the chunks of the serialized mapping
Serialize(m) == [i \in 1..NChunks |-> [m |-> m, i |-> i]]
\* what a file shows where nothing was written (offset beyond the end)
Hole == [m |-> EmptyMapping, i |-> 0]

\* the content is one whole serialized mapping
IsComplete(content) ==
    /\ Len(content) = NChunks
    /\ \A i \in 1..NChunks : content[i] = [m |-> content[1].m, i |-> i]

\* load_json / _load_existing / _load_json on a path: {} when the file is
\* not there, {} when json.load fails on it, else the mapping
LoadJson(path) ==
    IF dir[path] = 0 THEN EmptyMapping
    ELSE IF IsComplete(inodes[dir[path]]) THEN inodes[dir[path]][1].m
    ELSE EmptyMapping

\* f.write(chunk) at offset pos of a file
WriteAt(content, pos, chunk) ==
    IF pos < Len(content) THEN [content EXCEPT ![pos + 1] = chunk]
    ELSE content \o [i \in 1..(pos - Len(content)) |-> Hole] \o <<chunk>>

InitWriter == [pc |-> "load", existing |-> EmptyMapping, fd |-> 0, pos |-> 0, final |-> FALSE]

InitStore ==
    /\ store_kind \in StoreKinds
    /\ dir = [q \in Paths |-> 0]
    /\ inodes = <<>>
    /\ wr = [w \in Writers |-> InitWriter]
    /\ QaIdle /\ ValIdle /\ EnrIdle /\ PipeIdle

\* DataValidationAgent.run, "persist": existing = self._load_existing();
\* existing[provider_id] = validated_record
ValLoad(w) ==
    /\ store_kind = "validated" /\ wr[w].pc = "load"
    /\ wr' = [wr EXCEPT ![w].existing = [LoadJson(DestPath) EXCEPT ![w] = w],
                        ![w].pc = "mkstemp"]
    /\ UNCHANGED <<store_kind, dir, inodes, qaVars, valVars, enrVars, pipeVars>>

\* run_batch: enriched_existing = _load_json(enriched_json_path)
BatchLoad(w) ==
    /\ store_kind = "enriched" /\ wr[w].pc = "load"
    /\ wr' = [wr EXCEPT ![w].existing = LoadJson(DestPath), ![w].pc = "collect"]
    /\ UNCHANGED <<store_kind, dir, inodes, qaVars, valVars, enrVars, pipeVars>>

\* run_batch, collecting one future: enriched_existing[pid] = enriched_rec
BatchCollect(w) ==
    /\ store_kind = "enriched" /\ wr[w].pc = "collect"
    /\ wr' = [wr EXCEPT ![w].existing[w] = w, ![w].pc = "mkstemp"]
    /\ UNCHANGED <<store_kind, dir, inodes, qaVars, valVars, enrVars, pipeVars>>

\* quality_assurance_agent.run: results[pid] = qa.classify(record) for every
\* provider of the enriched store
QaClassifyAll(w) ==
    /\ store_kind = "qa" /\ wr[w].pc = "load"
    /\ wr' = [wr EXCEPT ![w].existing = [q \in Writers |-> w], ![w].pc = "open"]
    /\ UNCHANGED <<store_kind, dir, inodes, qaVars, valVars, enrVars, pipeVars>>

\* _atomic_write: fd, tmp = tempfile.mkstemp(dir=d), a new empty file
\* under a name no other file has
Mkstemp(w) ==
    /\ wr[w].pc = "mkstemp"
    /\ inodes' = Append(inodes, <<>>)
    /\ dir' = [dir EXCEPT ![MkstempPath(w)] = Len(inodes) + 1]
    /\ wr' = [wr EXCEPT ![w].fd = Len(inodes) + 1, ![w].pos = 0, ![w].pc = "write"]
    /\ UNCHANGED <<store_kind, qaVars, valVars, enrVars, pipeVars>>

\* atomic_write of the QA agent: open(path + ".tmp", "w") creates the file
\* or truncates the one that is there
OpenTmp(w) ==
    /\ wr[w].pc = "open"
    /\ IF dir[FixedTmpPath] = 0
       THEN /\ inodes' = Append(inodes, <<>>)
            /\ dir' = [dir EXCEPT ![FixedTmpPath] = Len(inodes) + 1]
            /\ wr' = [wr EXCEPT ![w].fd = Len(inodes) + 1, ![w].pos = 0, ![w].pc = "write"]
       ELSE /\ inodes' = [inodes EXCEPT ![dir[FixedTmpPath]] = <<>>]
            /\ dir' = dir
            /\ wr' = [wr EXCEPT ![w].fd = dir[FixedTmpPath], ![w].pos = 0,
                                ![w].pc = "write"]
    /\ UNCHANGED <<store_kind, qaVars, valVars, enrVars, pipeVars>>

\* json.dump: one write call on the open file; after the last one the file
\* is flushed, synced and closed
WriteChunk(w) ==
    /\ wr[w].pc = "write"
    /\ inodes' = [inodes EXCEPT ![wr[w].fd] =
                     WriteAt(@, wr[w].pos, [m |-> wr[w].existing, i |-> wr[w].pos + 1])]
    /\ wr' = [wr EXCEPT ![w].pos = @ + 1,
                        ![w].pc = IF wr[w].pos + 1 = NChunks THEN "replace" ELSE "write"]
    /\ UNCHANGED <<store_kind, dir, qaVars, valVars, enrVars, pipeVars>>

\* the path of the temporary file of writer w
TmpPath(w) == IF store_kind = "qa" THEN FixedTmpPath ELSE MkstempPath(w)

\* what a writer does once its temporary file is renamed: the QA run ends;
\* _atomic_write still has its "finally"
AfterReplace == IF store_kind = "qa" THEN "done" ELSE "cleanup"

\* os.replace(tmp, path): atomic rename; FileNotFoundError when tmp is gone
Replace(w) ==
    /\ wr[w].pc = "replace"
    /\ IF dir[TmpPath(w)] = 0
       THEN /\ wr' = [wr EXCEPT ![w].pc = "failed"]
            /\ dir' = dir
       ELSE /\ dir' = [dir EXCEPT ![DestPath] = dir[TmpPath(w)], ![TmpPath(w)] = 0]
            /\ wr' = [wr EXCEPT ![w].pc = AfterReplace]
    /\ UNCHANGED <<store_kind, inodes, qaVars, valVars, enrVars, pipeVars>>

\* _atomic_write, "finally": os.remove(tmp) if it still exists.  Then run
\* returns; run_batch goes on to its final write and returns after it.
Cleanup(w) ==
    /\ wr[w].pc = "cleanup"
    /\ dir' = [dir EXCEPT ![MkstempPath(w)] = 0]
    /\ wr' = [wr EXCEPT ![w].pc = IF store_kind = "enriched" /\ ~wr[w].final
                                  THEN "mkstemp" ELSE "done",
                        ![w].final = (store_kind = "enriched")]
    /\ UNCHANGED <<store_kind, inodes, qaVars, valVars, enrVars, pipeVars>>

\* the process of a writer is killed between two of its steps
Crash(w) ==
    /\ wr[w].pc \notin {"done", "failed", "crashed"}
    /\ wr' = [wr EXCEPT ![w].pc = "crashed"]
    /\ UNCHANGED <<store_kind, dir, inodes, qaVars, valVars, enrVars, pipeVars>>

NextStore ==
    \E w \in Writers :
        \/ ValLoad(w) \/ BatchLoad(w) \/ BatchCollect(w) \/ QaClassifyAll(w)
        \/ Mkstemp(w) \/ OpenTmp(w) \/ WriteChunk(w) \/ Replace(w) \/ Cleanup(w)
        \/ Crash(w)
SpecStore == InitStore /\ [][NextStore]_vars

\* the enriched record as QualityAssuranceAgent.classify reads it.  classify
\* looks up "combined_confidence", "base_validation" and "enriched"; the
\* record enrich_provider builds has "combined_confidence" and none of the
\* other two (it has "validated_record", "npi", "maps"), so the validation
\* status is the default "UNKNOWN", the normalized map is empty and the npi
\* and maps signals are None.
QaView(out) ==
    [combined |-> out.combined_confidence,
     validation_status |-> "UNKNOWN",
     license_status |-> Absent,
     license_dates |-> [issue_date |-> Absent, expiry_date |-> Absent],
     registration_number |-> Absent,
     npi |-> [truthy |-> FALSE, addr |-> Absent],
     maps |-> [truthy |-> FALSE, addr |-> Absent]]

---------------------------------------------------------------------------
(* Enrichment of one validated record (SpecEnrich)                         *)

MaxEnrichWeightStep == 1

\* validated records as enrich_provider reads them
EnrichRecordInputs ==
    [name : {<<>>, <<"J","o","h","n"," ","D","o","e">>, <<"A","s","h","a"," ","R","a","o">>},
     address : {<<>>, <<"1","2"," ","M","G"," ","R","o","a","d"," ","P","u","n","e">>},
     reg : {<<>>, <<"M","H","1","2","3","4","5">>, <<"1","4","2","7","5","5","7","8","9","3">>},
     raw_reg : {<<>>, <<"#","4","2","#">>},
     urls : {0, 1},
     spec_ok : BOOLEAN]
PlainRecord ==
    [name |-> <<"A","s","h","a"," ","R","a","o">>, address |-> <<"1","2"," ","M","G"," ","R","o","a","d"," ","P","u","n","e">>, reg |-> <<>>,
     raw_reg |-> <<>>, urls |-> 1, spec_ok |-> TRUE]

RegistryAnswers ==
    {[http |-> "unreachable", best_score |-> 0],
     [http |-> "no_results", best_score |-> 0],
     [http |-> "bad_json", best_score |-> 0],
     [http |-> "results", best_score |-> 0],
     [http |-> "results", best_score |-> 9000]}
MapsAnswers ==
    {[http |-> "error", name_match |-> 0, addr_match |-> 0, website |-> FALSE],
     [http |-> "unreachable", name_match |-> 0, addr_match |-> 0, website |-> FALSE],
     [http |-> "geocode", name_match |-> 0, addr_match |-> 0, website |-> FALSE],
     [http |-> "place", name_match |-> 5000, addr_match |-> 0, website |-> FALSE],
     [http |-> "details", name_match |-> 10000, addr_match |-> 10000, website |-> TRUE]}
ScrapeAnswers ==
    {[kind |-> "error", ds |-> 0, hs |-> 0, structured |-> FALSE],
     [kind |-> "unreachable", ds |-> 0, hs |-> 0, structured |-> FALSE],
     [kind |-> "page", ds |-> 300, hs |-> 330, structured |-> FALSE],
     [kind |-> "page", ds |-> 1000, hs |-> 1000, structured |-> TRUE]}
ServiceInputs ==
    [registry : RegistryAnswers, maps : MapsAnswers,
     scraper : [1..2 -> ScrapeAnswers]]

\* the weights an Enricher can be built with
EnrichWeightSteps == {50 * k : k \in -1..MaxEnrichWeightStep}
EnrichWeightInputs ==
    [npi : EnrichWeightSteps, maps : EnrichWeightSteps, scraper : EnrichWeightSteps]

NoEnrichedRecord ==
    [raised |-> FALSE, provider_id |-> "", npi |-> NoAnswer, maps |-> NoAnswer,
     scrape_found |-> FALSE,
     component_confidences |-> [npi |-> 0, maps |-> 0, scraper |-> 0],
     combined_confidence |-> 0, status |-> "NONE"]

\* every record with the default weights, and one record with every weight
\* configuration
InitEnrich ==
    /\ enr_svc \in ServiceInputs
    /\ \/ enr_rec \in EnrichRecordInputs /\ enr_weights = ENRICH_WEIGHTS
       \/ enr_rec = PlainRecord /\ enr_weights \in EnrichWeightInputs
    /\ enr_out = NoEnrichedRecord
    /\ enr_run = <<>>
    /\ QaIdle /\ ValIdle /\ StoreIdle /\ PipeIdle

\* enr_out = Enricher(weights=enr_weights).enrich_provider(provider_id, enr_rec)
Enrich(provider_id) ==
    /\ enr_out = NoEnrichedRecord
    /\ enr_out' = EnrichProvider(provider_id, enr_rec, enr_svc, enr_weights)
    /\ UNCHANGED <<enr_rec, enr_svc, enr_weights, enr_run,
                   qaVars, valVars, storeVars, pipeVars>>

NextEnrich == \E p \in Pids : Enrich(p)
SpecEnrich == InitEnrich /\ [][NextEnrich]_vars

(* Enricher.enrich_provider statement by statement (SpecJoin): the three   *)
(* lookups as calls that are started and later resolve, then the combine   *)
(* step.  call[c] is "idle", "pending" or "resolved".                      *)

\* the statement after the lookup c
StepAfter(c) ==
    CASE c = "npi" -> "maps"
      [] c = "maps" -> "scraper"
      [] c = "scraper" -> "combine"

\* where enrich_provider stands once it has started the lookup c, were the
\* call handed to a worker and not waited for
PcAfterCallSubmitted(c) == StepAfter(c)

\* where enrich_provider stands once it has started the lookup c:
\* _safe_call calls the service function itself, so it stays at c until
\* the call has returned or raised
PcAfterCall(c) == c

JoinRecordInputs ==
    {r \in EnrichRecordInputs : r.raw_reg = <<>> /\ r.address # <<>>}

InitJoin ==
    /\ enr_svc \in ServiceInputs
    /\ enr_rec \in JoinRecordInputs
    /\ enr_weights = ENRICH_WEIGHTS
    /\ enr_out = NoEnrichedRecord
    /\ enr_run = [pc |-> "begin", provider_id |-> "",
                  call |-> [c \in {"npi", "maps", "scraper"} |-> "idle"],
                  npi |-> NoAnswer, maps |-> NoAnswer,
                  scr |-> [found |-> FALSE, score |-> 0],
                  url |-> 1, joined |-> FALSE]
    /\ QaIdle /\ ValIdle /\ StoreIdle /\ PipeIdle

\* enrich_provider(provider_id, enr_rec) up to the first lookup: the join
\* of the specializations raises on an item that is not a str
JoinBegin(provider_id) ==
    /\ enr_run.pc = "begin"
    /\ IF enr_rec.spec_ok
       THEN /\ enr_run' = [enr_run EXCEPT !.pc = "npi", !.provider_id = provider_id]
            /\ UNCHANGED enr_out
       ELSE /\ enr_run' = [enr_run EXCEPT !.pc = "done", !.provider_id = provider_id]
            /\ enr_out' = RaisedEnriched
    /\ UNCHANGED <<enr_rec, enr_svc, enr_weights, qaVars, valVars, storeVars, pipeVars>>

\* the candidate urls left to the scrape loop: those of the validated
\* record, and the proof link of the maps result
UrlsLeft == enr_run.url <= enr_rec.urls + (IF enr_run.maps.proof THEN 1 ELSE 0)

\* the lookup c is called (for the scraper, the next candidate url)
JoinCall(c) ==
    /\ enr_run.pc = c
    /\ enr_run.call[c] = "idle"
    /\ c = "scraper" => UrlsLeft
    /\ enr_run' = [enr_run EXCEPT !.call[c] = "pending", !.pc = PcAfterCall(c)]
    /\ UNCHANGED <<enr_rec, enr_svc, enr_weights, enr_out,
                   qaVars, valVars, storeVars, pipeVars>>

\* the pending lookup c returns or raises (_safe_call turns a raise into
\* None) and its score is taken; the scrape loop goes to the next
\* candidate unless the score is 0.5 or more
JoinResolve(c) ==
    /\ enr_run.call[c] = "pending"
    /\ LET next == IF enr_run.pc = c THEN StepAfter(c) ELSE enr_run.pc
           scr == ScrapeLoop(enr_svc.scraper, enr_run.url, enr_run.url, enr_run.scr)
           more == /\ ~(enr_svc.scraper[enr_run.url].kind # "error" /\ scr.score >= 5000)
                   /\ enr_run.url < enr_rec.urls + (IF enr_run.maps.proof THEN 1 ELSE 0)
       IN  enr_run' =
             CASE c = "npi" ->
                    [enr_run EXCEPT !.call[c] = "resolved", !.pc = next,
                        !.npi = get_best_match(enr_rec.name, RegistrationOf(enr_rec),
                                               enr_svc.registry)]
               [] c = "maps" ->
                    [enr_run EXCEPT !.call[c] = "resolved", !.pc = next,
                        !.maps = enrich_provider_location(enr_rec.name, enr_rec.address,
                                                          enr_svc.maps)]
               [] c = "scraper" ->
                    [enr_run EXCEPT !.scr = scr, !.url = @ + 1,
                        !.call[c] = IF more THEN "idle" ELSE "resolved",
                        !.pc = IF more THEN @ ELSE next]
    /\ UNCHANGED <<enr_rec, enr_svc, enr_weights, enr_out,
                   qaVars, valVars, storeVars, pipeVars>>

\* no candidate url at all: the scrape loop has nothing to call
JoinNoUrl ==
    /\ enr_run.pc = "scraper"
    /\ enr_run.call["scraper"] = "idle"
    /\ ~UrlsLeft
    /\ enr_run' = [enr_run EXCEPT !.call["scraper"] = "resolved", !.pc = "combine"]
    /\ UNCHANGED <<enr_rec, enr_svc, enr_weights, enr_out,
                   qaVars, valVars, storeVars, pipeVars>>

\* "4) combine confidences" and the rest of enrich_provider, from the
\* scores taken so far; joined records whether every lookup had resolved
JoinCombine ==
    /\ enr_run.pc = "combine"
    /\ LET cc == CombinedConfidence(enr_weights, enr_run.npi.score,
                                    enr_run.maps.score, enr_run.scr.score)
       IN  enr_out' =
             [raised |-> FALSE,
              provider_id |-> enr_run.provider_id,
              npi |-> enr_run.npi,
              maps |-> enr_run.maps,
              scrape_found |-> enr_run.scr.found,
              component_confidences |->
                  [npi |-> RoundDiv(enr_run.npi.score, 10),
                   maps |-> RoundDiv(enr_run.maps.score, 10),
                   scraper |-> RoundDiv(enr_run.scr.score, 10)],
              combined_confidence |-> cc,
              status |-> EnrichStatus(cc)]
    /\ enr_run' = [enr_run EXCEPT !.pc = "done",
                       !.joined = \A c \in DOMAIN enr_run.call :
                                      enr_run.call[c] = "resolved"]
    /\ UNCHANGED <<enr_rec, enr_svc, enr_weights,
                   qaVars, valVars, storeVars, pipeVars>>

NextJoin ==
    \/ \E p \in Pids : JoinBegin(p)
    \/ \E c \in {"npi", "maps", "scraper"} : JoinCall(c)
    \/ \E c \in {"npi", "maps", "scraper"} : JoinResolve(c)
    \/ JoinNoUrl
    \/ JoinCombine
SpecJoin == InitJoin /\ [][NextJoin]_vars

---------------------------------------------------------------------------
(* The three stages run one after the other on their stores (SpecPipe).    *)
(*                                                                         *)
(* A store is the sequence of its records in key order (a Python dict      *)
(* keeps insertion order and json.dump writes it in that order).  A        *)
(* validated record is known by the version of the input it was computed   *)
(* from, an enriched record by the version of the validated record it was  *)
(* computed from; the timestamp fields are left out of the records.        *)

MaxVersion == 2
InputVersions == 1..MaxVersion

HasKey(store, p) == \E i \in 1..Len(store) : store[i].pid = p
KeyIndex(store, p) == CHOOSE i \in 1..Len(store) : store[i].pid = p
Lookup(store, p) == store[KeyIndex(store, p)]
StoreKeys(store) == {store[i].pid : i \in 1..Len(store)}

\* d[p] = rec with the key moved to the end of the dict
PutLast(store, p, rec) ==
    Append(SelectSeq(store, LAMBDA r : r.pid # p), rec)

\* d[p] = rec on a dict: the value of an existing key is replaced where it
\* stands, a new key goes to the end
Put(store, p, rec) ==
    IF HasKey(store, p) THEN [store EXCEPT ![KeyIndex(store, p)] = rec]
    ELSE Append(store, rec)

\* how enrich_provider ends for a provider: it raises, or returns a record
\* with some combined confidence
EnrichOutcomes ==
    {[raised |-> TRUE, combined_confidence |-> 0],
     [raised |-> FALSE, combined_confidence |-> 950]}

IdleBatch ==
    [pc |-> "idle", force |-> FALSE, validated |-> <<>>, existing |-> <<>>,
     pending |-> {}, collected |-> {}, rerun |-> FALSE, crashed |-> FALSE,
     write_failed |-> FALSE]

\* no call of a stage entry point has ended yet, or one is under way
NoCall ==
    [op |-> "none", pid |-> "", version |-> 0, outcome |-> "none",
     collected |-> {}, write_failed |-> FALSE]

InitPipe ==
    /\ st_validated = <<>> /\ st_enriched = <<>> /\ st_qa = <<>>
    /\ svc_outcome \in [Pids -> EnrichOutcomes]
    /\ batch = IdleBatch
    /\ ret = NoCall
    /\ progress = 0
    /\ QaIdle /\ ValIdle /\ StoreIdle /\ EnrIdle

\* the input of provider p is the one its validated record was computed from
SameInput(p, v) == HasKey(st_validated, p) /\ Lookup(st_validated, p).version = v

\* a write that changes the enriched store after the QA stage has read it
\* leaves the QA stage to be run again
AfterEnrichedWrite(new_store, progress_now) ==
    IF new_store # st_enriched /\ progress_now >= 3 THEN 2 ELSE progress_now

\* DataValidationAgent.run(p, ...) on the input of version v, the store
\* file being readable: existing = _load_existing(); existing[p] = record;
\* _atomic_write(path, existing)
Validate(p, v) ==
    /\ batch.pc = "idle"
    /\ st_validated' = Put(st_validated, p, [pid |-> p, version |-> v])
    /\ progress' = IF ~SameInput(p, v) THEN 1
                   ELSE IF progress = 3 THEN 4 ELSE progress
    /\ ret' = [NoCall EXCEPT !.op = "run", !.pid = p, !.version = v,
                             !.outcome = "returned"]
    /\ UNCHANGED <<st_enriched, st_qa, svc_outcome, batch,
                   qaVars, valVars, storeVars, enrVars>>

\* DataValidationAgent.run(p, ...) when mkstemp, the write of the temporary
\* file or os.replace raises inside _atomic_write: nothing catches the
\* exception, run does not return and the store file is as it was
ValidateWriteFails(p, v) ==
    /\ batch.pc = "idle"
    /\ ret' = [NoCall EXCEPT !.op = "run", !.pid = p, !.version = v,
                             !.outcome = "raised", !.write_failed = TRUE]
    /\ UNCHANGED <<st_validated, st_enriched, st_qa, svc_outcome, batch, progress,
                   qaVars, valVars, storeVars, enrVars>>

\* run_batch(force=force) up to the end of the submit loop: validated and
\* enriched_existing are loaded, a future is submitted for every provider
\* that is not already enriched, or for every provider when forced.  With
\* no validated record run_batch returns at once.
RunBatchStart(force) ==
    /\ batch.pc = "idle"
    /\ st_validated # <<>>
    /\ batch' = [pc |-> "collect", force |-> force,
                 validated |-> st_validated,
                 existing |-> st_enriched,
                 pending |-> {p \in StoreKeys(st_validated) :
                                 ~(HasKey(st_enriched, p) /\ ~force)},
                 collected |-> {},
                 rerun |-> progress >= 2,
                 crashed |-> FALSE,
                 write_failed |-> FALSE]
    /\ ret' = NoCall
    /\ UNCHANGED <<st_validated, st_enriched, st_qa, svc_outcome, progress,
                   qaVars, valVars, storeVars, enrVars>>

\* where run_batch goes once a result is merged into enriched_existing,
\* were the write left to the end of the batch
PcAfterMergeDeferred == "collect"

\* where run_batch goes once a result is merged into enriched_existing:
\* to the write of the store
PcAfterMerge == "persist"

\* the collect loop takes the next completed future, in whatever order
\* the workers finish: fut.result() raises (logged, nothing is stored) or
\* gives the record, which is merged into enriched_existing
RunBatchCollect(p) ==
    /\ batch.pc = "collect"
    /\ p \in batch.pending
    /\ IF svc_outcome[p].raised
       THEN batch' = [batch EXCEPT !.pending = @ \ {p}]
       ELSE batch' = [batch EXCEPT
                !.pending = @ \ {p},
                !.collected = @ \cup {p},
                !.existing = Put(@, p,
                    [pid |-> p,
                     version |-> Lookup(batch.validated, p).version,
                     combined_confidence |-> svc_outcome[p].combined_confidence]),
                !.pc = PcAfterMerge]
    /\ UNCHANGED <<st_validated, st_enriched, st_qa, svc_outcome, progress, ret,
                   qaVars, valVars, storeVars, enrVars>>

\* _atomic_write(enriched_json_path, enriched_existing) inside the loop
RunBatchPersist ==
    /\ batch.pc = "persist"
    /\ st_enriched' = batch.existing
    /\ batch' = [batch EXCEPT !.pc = "collect"]
    /\ progress' = AfterEnrichedWrite(batch.existing, progress)
    /\ UNCHANGED <<st_validated, st_qa, svc_outcome, ret,
                   qaVars, valVars, storeVars, enrVars>>

\* the write inside the loop raises: the "except Exception" of the loop
\* catches and logs it, the store file is as it was and the loop goes on
RunBatchPersistFails ==
    /\ batch.pc = "persist"
    /\ batch' = [batch EXCEPT !.pc = "collect", !.write_failed = TRUE]
    /\ UNCHANGED <<st_validated, st_enriched, st_qa, svc_outcome, progress, ret,
                   qaVars, valVars, storeVars, enrVars>>

\* the final write, once every future has been collected; run_batch returns
RunBatchFinal ==
    /\ batch.pc = "collect"
    /\ batch.pending = {}
    /\ st_enriched' = batch.existing
    /\ batch' = [IdleBatch EXCEPT !.force = batch.force, !.rerun = batch.rerun]
    /\ progress' = AfterEnrichedWrite(batch.existing,
                        IF progress \in {1, 4} THEN progress + 1 ELSE progress)
    /\ ret' = [NoCall EXCEPT !.op = "run_batch", !.outcome = "returned",
                             !.collected = batch.collected,
                             !.write_failed = batch.write_failed]
    /\ UNCHANGED <<st_validated, st_qa, svc_outcome,
                   qaVars, valVars, storeVars, enrVars>>

\* the final write raises: it stands outside every try, so run_batch
\* raises and the store file is as the last successful write left it
RunBatchFinalFails ==
    /\ batch.pc = "collect"
    /\ batch.pending = {}
    /\ batch' = [IdleBatch EXCEPT !.force = batch.force, !.rerun = batch.rerun]
    /\ ret' = [NoCall EXCEPT !.op = "run_batch", !.outcome = "raised",
                             !.collected = batch.collected,
                             !.write_failed = TRUE]
    /\ UNCHANGED <<st_validated, st_enriched, st_qa, svc_outcome, progress,
                   qaVars, valVars, storeVars, enrVars>>

\* the batch is stopped between two of its steps
RunBatchCrash ==
    /\ batch.pc # "idle"
    /\ batch' = [IdleBatch EXCEPT !.crashed = TRUE]
    /\ ret' = NoCall
    /\ UNCHANGED <<st_validated, st_enriched, st_qa, svc_outcome, progress,
                   qaVars, valVars, storeVars, enrVars>>

\* the QA record of one enriched record of the store
QaRecord(r) ==
    [pid |-> r.pid, version |-> r.version,
     combined_confidence |-> r.combined_confidence,
     final_status |-> Classify(QaView(r)).final_status]

\* quality_assurance_agent.run(): every record of the enriched store is
\* classified, in store order, and the results replace the QA store.  With
\* no enriched record it returns without writing.
QaRun ==
    /\ batch.pc = "idle"
    /\ st_enriched # <<>>
    /\ st_qa' = [i \in 1..Len(st_enriched) |-> QaRecord(st_enriched[i])]
    /\ progress' = IF progress \in {2, 5} THEN progress + 1 ELSE progress
    /\ ret' = [NoCall EXCEPT !.op = "qa", !.outcome = "returned"]
    /\ UNCHANGED <<st_validated, st_enriched, svc_outcome, batch,
                   qaVars, valVars, storeVars, enrVars>>

NextPipe ==
    \/ \E p \in Pids, v \in InputVersions : Validate(p, v)
    \/ \E force \in BOOLEAN : RunBatchStart(force)
    \/ \E p \in Pids : RunBatchCollect(p)
    \/ RunBatchPersist
    \/ RunBatchFinal
    \/ RunBatchCrash
    \/ QaRun
SpecPipe == InitPipe /\ [][NextPipe]_vars

(* The same pipeline on a disk whose writes can fail (SpecPersist): every  *)
(* _atomic_write of the validation stage and of run_batch either succeeds  *)
(* or raises.                                                              *)
NextPersist ==
    \/ NextPipe
    \/ \E p \in Pids, v \in InputVersions : ValidateWriteFails(p, v)
    \/ RunBatchPersistFails
    \/ RunBatchFinalFails
SpecPersist == InitPipe /\ [][NextPersist]_vars

---------------------------------------------------------------------------
(* Properties of the QA stage (SpecQA)                                     *)

QaClassified == qa_result.final_status \notin {"NONE", "RAISED"}

\* the license status of the record is present, non-empty and not "ACTIVE"
\* whatever its letter case
LicensePresentNotActive(e) ==
    /\ e.license_status.t = "str"
    /\ e.license_status.s # <<>>
    /\ Lower(e.license_status.s) # <<"a","c","t","i","v","e">>

\* C1: hard-fail dominance.  A record whose license status is present,
\* non-empty and not ACTIVE (case-insensitively) is never classified
\* VERIFIED, whatever its combined confidence and validation status.
HardFailDominance ==
    (qa_result.final_status # "NONE" /\ LicensePresentNotActive(qa_enriched))
        => qa_result.final_status # "VERIFIED"

\* C1 witness: a suspended license with full confidence, PASS validation, a
\* registration number and no address mismatch has been classified FAIL_QA.
HardFailDominanceWitness ==
    /\ LicensePresentNotActive(qa_enriched)
    /\ qa_enriched.combined = 1000
    /\ qa_enriched.validation_status = "PASS"
    /\ Truthy(qa_enriched.registration_number)
    /\ ~qa_enriched.npi.truthy
    /\ qa_result.final_status = "FAIL_QA"
    /\ qa_result.issues = <<"license_not_active">>

\* registry address and maps address are both given and the first ten
\* characters of the former (lower-cased) do not occur in the latter
PrefixMatchFails(e) ==
    /\ e.npi.truthy /\ e.maps.truthy
    /\ e.npi.addr.t = "str" /\ e.npi.addr.s # <<>>
    /\ e.maps.addr.t = "str" /\ e.maps.addr.s # <<>>
    /\ LET k == Min(10, Len(e.npi.addr.s))
       IN  \A i \in 0..(Len(e.maps.addr.s) - k) :
              SubSeq(Lower(e.maps.addr.s), i + 1, i + k) # SubSeq(Lower(e.npi.addr.s), 1, k)

RegistrationMissing(e) ==
    e.registration_number.t \in {"absent", "none"} \/ e.registration_number.s = <<>>

\* C2: the rules are evaluated in a fixed order.  FAIL_QA if a hard-fail
\* rule fires; otherwise VERIFIED exactly when combined >= 0.80 and the
\* validation status is PASS; otherwise NEEDS_REVIEW exactly when
\* combined >= 0.45; otherwise REJECTED.
ClassifyRuleOrder ==
    QaClassified =>
        qa_result.final_status =
            (IF \/ LicensePresentNotActive(qa_enriched)
                \/ RegistrationMissing(qa_enriched)
                \/ PrefixMatchFails(qa_enriched)
             THEN "FAIL_QA"
             ELSE IF qa_enriched.combined >= 800 /\ qa_enriched.validation_status = "PASS"
             THEN "VERIFIED"
             ELSE IF qa_enriched.combined >= 450 THEN "NEEDS_REVIEW"
             ELSE "REJECTED")

\* C2 witness: a record exactly on the verification threshold, with both
\* addresses given and matching, has been classified VERIFIED.
ClassifyRuleOrderWitness ==
    /\ qa_result.final_status = "VERIFIED"
    /\ qa_enriched.combined = 800
    /\ qa_enriched.npi.truthy /\ Truthy(qa_enriched.npi.addr)
    /\ qa_enriched.maps.truthy /\ Truthy(qa_enriched.maps.addr)


\* the full month names of a "Month DD, YYYY" date
MonthNames ==
    <<<<"J","a","n","u","a","r","y">>, <<"F","e","b","r","u","a","r","y">>, <<"M","a","r","c","h">>, <<"A","p","r","i","l">>, <<"M","a","y">>, <<"J","u","n","e">>, <<"J","u","l","y">>,
      <<"A","u","g","u","s","t">>, <<"S","e","p","t","e","m","b","e","r">>, <<"O","c","t","o","b","e","r">>, <<"N","o","v","e","m","b","e","r">>, <<"D","e","c","e","m","b","e","r">>>>

AllDigits(s) == s # <<>> /\ \A i \in 1..Len(s) : IsDigit(s[i])

\* the date a "Month DD, YYYY" text denotes, as <<year, month, day>>, or
\* <<>> when the text is not of that form
ParseMonthDayYear(s) ==
    LET parts == SplitRuns(s, {" ", ","}, <<>>)
    IN  IF Len(parts) # 3 THEN <<>>
        ELSE IF \/ \A i \in 1..12 : MonthNames[i] # parts[1]
                \/ ~AllDigits(parts[2]) \/ Len(parts[2]) > 2
                \/ ~AllDigits(parts[3]) \/ Len(parts[3]) # 4
                \/ DigitsVal(parts[2]) \notin 1..31
             THEN <<>>
             ELSE <<DigitsVal(parts[3]),
                    CHOOSE i \in 1..12 : MonthNames[i] = parts[1],
                    DigitsVal(parts[2])>>

\* the day the records are classified
CurrentDate == <<2026, 11, 1>>

DateBefore(a, b) ==
    \/ a[1] < b[1]
    \/ a[1] = b[1] /\ a[2] < b[2]
    \/ a[1] = b[1] /\ a[2] = b[2] /\ a[3] < b[3]

\* the license of the record has its number, status, issue date and expiry
\* date, and the status is ACTIVE
LicenseCompleteAndActive(e) ==
    /\ Truthy(e.registration_number)
    /\ e.license_status = Str(<<"A","C","T","I","V","E">>)
    /\ e.license_dates.issue_date.t = "str"
    /\ e.license_dates.expiry_date.t = "str"

\* C12: scenario D.  A record whose license is ACTIVE with an expiry date
\* in the past is classified FAIL_QA, whatever its combined confidence:
\* never VERIFIED, NEEDS_REVIEW or REJECTED.
ExpiredLicenseFailsQA ==
    (/\ qa_result.final_status # "NONE"
     /\ LicenseCompleteAndActive(qa_enriched)
     /\ ParseMonthDayYear(qa_enriched.license_dates.expiry_date.s) # <<>>
     /\ DateBefore(ParseMonthDayYear(qa_enriched.license_dates.expiry_date.s), CurrentDate))
        => qa_result.final_status = "FAIL_QA"

\* C13: expiry fail-safe.  A record whose license has its number, status,
\* issue date and expiry date, with status ACTIVE and an expiry date that
\* does not parse as "Month DD, YYYY", is never classified VERIFIED.
UnparsableExpiryNeverVerified ==
    (/\ qa_result.final_status # "NONE"
     /\ LicenseCompleteAndActive(qa_enriched)
     /\ ParseMonthDayYear(qa_enriched.license_dates.expiry_date.s) = <<>>)
        => qa_result.final_status # "VERIFIED"

---------------------------------------------------------------------------
(* Properties of the validation stage (SpecVal)                            *)

Validated == val_record.status = "PENDING"
Range(seq) == {seq[i] : i \in 1..Len(seq)}

\* C5: missing-field invariant.  After run, a scored field is in
\* missing_fields if and only if its format confidence and its source
\* confidence are both exactly 0, for every weight configuration.
MissingFieldInvariant ==
    Validated =>
        \A f \in FieldSet :
            (f \in Range(val_record.missing_fields))
                <=> (val_record.format_confidence[f] = 0
                     /\ val_record.source_confidence[f] = 0)

\* C5 witness: under non-default weights one field is missing and another
\* is flagged low_confidence with a single zero component, hence not missing.
MissingFieldInvariantWitness ==
    /\ Validated
    /\ weights # DefaultWeights
    /\ val_record.missing_fields # <<>>
    /\ \E g \in FieldSet :
          /\ val_record.format_confidence[g] = 0
          /\ val_record.source_confidence[g] # 0
          /\ val_record.validation_flags[g] = <<"low_confidence", "format_invalid">>
          /\ g \notin Range(val_record.missing_fields)

\* the keys under which a field may be stored in a field map
AliasesOf(f) ==
    CASE f = "name" -> {"name", "provider_name", "full_name"}
      [] f = "phone" -> {"phone", "phone_number", "contact", "mobile"}
      [] f = "email" -> {"email", "email_address", "contact_email"}
      [] f = "address" -> {"address", "location", "addr", "clinic_address"}
      [] f = "registration" -> {"registration_number", "registration", "reg_no", "regnum"}
      [] f = "qualifications" -> {"qualifications", "qualification", "degree"}
      [] f = "experience_years" -> {"experience_years", "experience", "exp"}
      [] f = "specializations" -> {"specializations", "speciality", "specialties"}

\* the map m holds a value (not None, "" or []) under some alias of f
HoldsField(m, f) ==
    \E k \in AliasesOf(f) :
        /\ m[k].t \notin {"absent", "none"}
        /\ ~(m[k].t = "str" /\ m[k].s = <<>>)
        /\ ~(m[k].t = "list" /\ m[k].l = <<>>)

\* C6: a field that neither map holds under any of its aliases has source
\* confidence 0 and is listed in missing_fields; a value stored under
\* another field's alias never counts as a source for it.
AbsentFieldIsMissing ==
    Validated =>
        \A f \in FieldSet :
            (~HoldsField(val_csv, f) /\ ~HoldsField(val_pdf, f))
                => /\ val_record.source_confidence[f] = 0
                   /\ f \in Range(val_record.missing_fields)

\* the key of a field in the submitted map, and the str run hands to the
\* estimator as the normalized value
SourceKey(f) ==
    CASE f = "address" -> "clinic_address"
      [] f = "registration" -> "registration_number"
      [] OTHER -> f
NormalizedText(f) ==
    LET nz == val_record.normalized
    IN  CASE f = "name" -> nz.name.s
          [] f = "phone" -> nz.phone.s
          [] f = "email" -> nz.email.s
          [] f = "address" -> nz.address.s
          [] f = "registration" -> nz.registration_number.s
          [] f = "qualifications" -> Join(nz.qualifications.l, <<",">>)
          [] f = "experience_years" ->
                (IF nz.experience_years.t = "int" THEN NatStr(nz.experience_years.n) ELSE <<>>)
          [] f = "specializations" -> Join(nz.specializations.l, <<",">>)

\* the trimmed, lower-cased text of a value; empty when there is no value
ComparedText(v) == IF v.t \in {"none", "absent"} THEN <<>> ELSE Lower(Strip(PyStr(v)))
SubmittedText(f) == ComparedText(CsvValue(SourceKey(f), val_csv))
ExtractedText(f) == ComparedText(PdfValue(SourceKey(f), val_pdf))

\* the table of the claim, its rows read in the order given
AgreementTable(c, p, n) ==
    CASE c # <<>> /\ p # <<>> /\ c = p -> 950
      [] c # <<>> /\ p # <<>> /\ c # p /\ (c = n \/ p = n) -> 850
      [] c # <<>> /\ p # <<>> /\ c # p /\ c # n /\ p # n -> 400
      [] c # <<>> /\ p = <<>> /\ c = n -> 880
      [] c # <<>> /\ p = <<>> /\ c # n -> 800
      [] c = <<>> /\ p # <<>> /\ p = n -> 750
      [] c = <<>> /\ p # <<>> /\ p # n -> 600
      [] c = <<>> /\ p = <<>> -> 0

NationalDigits(s) ==
    LET d == DigitsOf(s)
    IN  SubSeq(d, Max(1, Len(d) - 9), Len(d))

\* the submitted and the extracted phone are both given as text
BothPhonesGiven ==
    /\ CsvValue("phone", val_csv).t = "str" /\ CsvValue("phone", val_csv).s # <<>>
    /\ PdfValue("phone", val_pdf).t = "str" /\ PdfValue("phone", val_pdf).s # <<>>

\* C8: genuine conflict scores 0.40.  A submitted and an extracted phone
\* that are each a well-formed ten-digit number but differ in a digit give
\* source confidence 0.40 for the phone.
GenuineConflictScores ==
    (/\ Validated /\ BothPhonesGiven
     /\ Len(DigitsOf(CsvValue("phone", val_csv).s)) = 10
     /\ Len(DigitsOf(PdfValue("phone", val_pdf).s)) = 10
     /\ DigitsOf(CsvValue("phone", val_csv).s) # DigitsOf(PdfValue("phone", val_pdf).s))
        => val_record.source_confidence["phone"] = 400

\* C9: formatting-only differences count as agreement.  A submitted and an
\* extracted phone that are written differently but denote the same
\* ten-digit number give source agreement 0.95 and, with format confidence
\* 1.0, field confidence 1.0.
FormattingOnlyAgreement ==
    (/\ Validated /\ BothPhonesGiven
     /\ CsvValue("phone", val_csv).s # PdfValue("phone", val_pdf).s
     /\ Len(NationalDigits(CsvValue("phone", val_csv).s)) = 10
     /\ NationalDigits(CsvValue("phone", val_csv).s)
            = NationalDigits(PdfValue("phone", val_pdf).s))
        => /\ val_record.source_confidence["phone"] = 950
           /\ (val_record.format_confidence["phone"] = 1000
                  => val_record.field_confidence["phone"] = 1000)

\* C10: clamping in the validation stage.  For every weight configuration,
\* also above 1 or below 0, every field confidence and the overall
\* confidence lie in [0,1].
ValidationClamped ==
    Validated =>
        /\ \A f \in FieldSet :
              0 <= val_record.field_confidence[f] /\ val_record.field_confidence[f] <= 1000
        /\ 0 <= val_record.overall_confidence /\ val_record.overall_confidence <= 1000

\* C10 witness: with both weights above 1 a field whose blend exceeds 1 has
\* field confidence exactly 1.
ValidationClampedWitness ==
    /\ Validated
    /\ weights.source > 10 /\ weights.format > 10
    /\ \E f \in FieldSet :
          /\ weights.source * val_record.source_confidence[f]
                + weights.format * val_record.format_confidence[f] > 10000
          /\ val_record.field_confidence[f] = 1000

---------------------------------------------------------------------------
(* Properties of the stage stores (SpecStore)                              *)

AllDone == \A w \in Writers : wr[w].pc = "done"

\* C3: two concurrent writers for different provider ids never lose an
\* update.  Once concurrent runs of DataValidationAgent.run, or of
\* run_batch, for different providers have all finished, the store holds
\* the record of every one of them, under every interleaving.
NoLostUpdate ==
    (store_kind \in {"validated", "enriched"} /\ AllDone)
        => \A w \in Writers : LoadJson(DestPath)[w] # 0

\* C4: at every instant, under any interleaving of writers and any crash
\* between their steps, the store file is either absent or holds one
\* complete mapping that some writer wrote in full; for each of the three
\* store writers.
StoreFileAlwaysComplete ==
    (store_kind \in StoreKinds /\ dir[DestPath] # 0)
        => IsComplete(inodes[dir[DestPath]])

\* C18: records are never deleted and runs for different providers are
\* independent.  The store file being readable, no step of a run of
\* DataValidationAgent.run or of run_batch for one provider removes or
\* changes the record another provider has in the store.
OtherRecordsKept ==
    [][(store_kind \in {"validated", "enriched"}) =>
          (\A p \in Writers :
              (LoadJson(DestPath)[p] # 0) =>
                  ((LoadJson(DestPath))'[p] = LoadJson(DestPath)[p]))]_vars

---------------------------------------------------------------------------
(* Properties of the enrichment stage (SpecEnrich)                         *)

Enriched == enr_out.status # "NONE"

\* C11: clamping in the enrichment stage.  Whatever the weights the
\* Enricher was built with and whatever the three services answered, the
\* combined_confidence of the enriched record lies between 0 and 1.
EnrichmentClamped ==
    Enriched => (enr_out.combined_confidence >= 0 /\ enr_out.combined_confidence <= 1000)

\* every request to the registry failed or found nothing
RegistryUnreachable == enr_svc.registry.http \in {"unreachable", "no_results"}
\* the maps service failed or found nothing
MapsUnreachable == enr_svc.maps.http \in {"error", "unreachable"}
\* no website answered
WebsiteUnreachable ==
    \A i \in DOMAIN enr_svc.scraper : enr_svc.scraper[i].kind \in {"error", "unreachable"}

\* C14: scenario E.  When none of the three services is reachable or finds
\* anything, enrich_provider returns a record, its combined_confidence is
\* 0.0, and the QA stage classifies that record REJECTED.
ScenarioERejected ==
    (enr_out # NoEnrichedRecord /\ RegistryUnreachable /\ MapsUnreachable
        /\ WebsiteUnreachable)
        => /\ ~enr_out.raised
           /\ enr_out.combined_confidence = 0
           /\ Classify(QaView(enr_out)).final_status = "REJECTED"

\* C15: an unreachable source contributes 0.  When every request to the
\* registry fails or finds nothing, the registry component confidence of
\* the enriched record is 0, with or without a registration number; the
\* same holds for the maps service and for the websites.
UnreachableSourceScoresZero ==
    Enriched =>
        /\ RegistryUnreachable => enr_out.component_confidences.npi = 0
        /\ MapsUnreachable => enr_out.component_confidences.maps = 0
        /\ WebsiteUnreachable => enr_out.component_confidences.scraper = 0

---------------------------------------------------------------------------
(* Properties of the stage runs (SpecPipe)                                 *)

QaStatuses == {"VERIFIED", "NEEDS_REVIEW", "FAIL_QA", "REJECTED"}

\* C16: no provider is silently omitted.  Once validation, then run_batch,
\* then the QA run have completed, every provider of the validated store
\* has a record in the enriched store and a record in the QA store with one
\* of the four final statuses, even when enrich_provider failed for it.
NoProviderOmitted ==
    progress >= 3 =>
        \A p \in StoreKeys(st_validated) :
            /\ HasKey(st_enriched, p)
            /\ HasKey(st_qa, p)
            /\ Lookup(st_qa, p).final_status \in QaStatuses

\* C17: re-running a stage overwrites the prior value.  Once run_batch
\* with its default arguments has completed after the last change of the
\* validated store, the enriched record of every provider is the one
\* computed from its current validated record.
RerunOverwrites ==
    (progress >= 2 /\ batch.pc = "idle" /\ ~batch.force /\ ~batch.crashed) =>
        \A p \in StoreKeys(st_validated) \cap StoreKeys(st_enriched) :
            Lookup(st_enriched, p).version = Lookup(st_validated, p).version

\* C19: idempotence.  Once the three stages have run, running validation
\* again on the same input, run_batch again with its default arguments, or
\* the QA run again leaves the three stores as they were: same provider
\* ids, same key order, same records (timestamps apart).
IdempotentRerun ==
    [][(/\ progress >= 3
        /\ progress' # 1
        /\ (batch.pc # "idle" => ~batch.force))
          => /\ st_validated' = st_validated
             /\ st_enriched' = st_enriched
             /\ st_qa' = st_qa]_vars

\* C19 witness: the three stages have all been run a second time on
\* unchanged inputs, with two providers validated and records in the
\* enriched and QA stores.
IdempotentRerunWitness ==
    /\ progress = 6
    /\ Len(st_validated) = 2
    /\ st_enriched # <<>>
    /\ st_qa # <<>>

---------------------------------------------------------------------------
(* Properties of the pipeline on a failing disk (SpecPersist)              *)

\* C21: persistence failures are never silent.  A call of
\* DataValidationAgent.run that returned has its record in the validated
\* store; a call of run_batch that returned met no failed write, and every
\* enriched record it collected is in the persisted enriched store.
PersistenceFailureSurfaces ==
    /\ (ret.op = "run" /\ ret.outcome = "returned")
          => SameInput(ret.pid, ret.version)
    /\ (ret.op = "run_batch" /\ ret.outcome = "returned")
          => /\ ~ret.write_failed
             /\ \A p \in ret.collected : HasKey(st_enriched, p)

---------------------------------------------------------------------------
(* Properties of enrich_provider step by step (SpecJoin)                   *)

\* C22: join before combine.  When enrich_provider has computed
\* combined_confidence, the registry lookup, the maps lookup and the
\* website scrape had each resolved, and the record is the one obtained
\* from the three resolved answers.
JoinBeforeCombine ==
    (enr_run.pc = "done" /\ ~enr_out.raised)
        => /\ enr_run.joined
           /\ enr_out = EnrichProvider(enr_run.provider_id, enr_rec, enr_svc, enr_weights)

\* C22 witness: a call in which every lookup contributed a positive score
\* and the scrape loop went through two candidate urls.
JoinBeforeCombineWitness ==
    /\ enr_run.pc = "done" /\ ~enr_out.raised
    /\ enr_run.url = 3
    /\ enr_out.component_confidences.npi > 0
    /\ enr_out.component_confidences.maps > 0
    /\ enr_out.component_confidences.scraper > 0

---------------------------------------------------------------------------
(* Properties of the overall confidence (SpecVal)                          *)

\* the field-weight table as the specification gives it, in thousandths
TableWeights ==
    <<[field |-> "name", weight |-> 250], [field |-> "phone", weight |-> 200],
      [field |-> "email", weight |-> 150], [field |-> "address", weight |-> 200],
      [field |-> "registration", weight |-> 100],
      [field |-> "qualifications", weight |-> 50]>>

\* the sum of field_confidence * weight over the first n rows of the table
RECURSIVE TableSum(_)
TableSum(n) ==
    IF n = 0 THEN 0
    ELSE val_record.field_confidence[TableWeights[n].field] * TableWeights[n].weight
         + TableSum(n - 1)

\* C23 as stated: overall_confidence is the weighted sum of field_confidence
\* over the fixed table divided by the fixed weight sum, and that weight
\* sum is 1.0, so that overall_confidence is the weighted sum itself.
OverallWeightSumIsOne ==
    Validated =>
        val_record.overall_confidence = RoundDiv(TableSum(Len(TableWeights)), 1000)

\* C23 amended: overall_confidence is the weighted sum of field_confidence
\* over the fixed table divided by the sum of the table's weights, which is
\* 0.95: a weighted field with confidence 0 adds nothing to the numerator,
\* the denominator is the same whichever fields are present, and
\* specializations and experience_years do not enter.
OverallIsTableMean ==
    Validated =>
        val_record.overall_confidence = RoundDiv(TableSum(Len(TableWeights)), 950)

\* C23 witness: a record with a weighted field at confidence 0, another
\* above 0, a positive specializations confidence, and an overall
\* confidence that differs from the plain weighted sum.
OverallIsTableMeanWitness ==
    /\ Validated
    /\ \E n \in 1..Len(TableWeights) :
          val_record.field_confidence[TableWeights[n].field] = 0
    /\ \E n \in 1..Len(TableWeights) :
          val_record.field_confidence[TableWeights[n].field] > 0
    /\ val_record.field_confidence["specializations"] > 0
    /\ val_record.overall_confidence # RoundDiv(TableSum(Len(TableWeights)), 1000)

---------------------------------------------------------------------------
(* Properties of the field selection (SpecVal)                             *)

\* the keys run looks a field up under, in the order it tries them
KeyOrder(f) ==
    CASE f = "name" -> <<"name", "provider_name", "full_name">>
      [] f = "phone" -> <<"phone", "phone_number", "contact", "mobile">>
      [] f = "email" -> <<"email", "email_address", "contact_email">>
      [] f = "address" -> <<"address", "location", "addr", "clinic_address">>
      [] f = "registration" -> <<"registration_number", "registration", "reg_no", "regnum">>
      [] f = "qualifications" -> <<"qualifications", "qualification", "degree">>
      [] f = "experience_years" -> <<"experience_years", "experience", "exp">>
      [] f = "specializations" -> <<"specializations", "speciality", "specialties">>

\* the normalized value of field f that run would derive from the map m alone
NormalizedFrom(m, f) ==
    LET raw == get_field(m, KeyOrder(f))
    IN  CASE f = "name" -> normalize_name(raw)
          [] f = "phone" -> normalize_phone(raw)
          [] f = "email" -> normalize_email(raw)
          [] f = "address" -> normalize_address(raw)
          [] f = "registration" -> normalize_registration(raw)
          [] f = "qualifications" ->
                (IF Truthy(raw) THEN normalize_qualifications(raw) ELSE ListV(<<>>))
          [] f = "experience_years" ->
                (IF Truthy(raw) THEN extract_experience_years(raw) ELSE NoneV)
          [] f = "specializations" -> NormalizeSpecializations(raw)

\* the normalized value of field f in the record run returned
NormalizedOf(f) ==
    IF f = "registration" THEN val_record.normalized.registration_number
    ELSE val_record.normalized[f]

\* C24: field selection priority.  When the submitted and the extracted map
\* both hold a non-empty value for a field, the normalized value is the
\* one derived from the extracted value for the registration number and
\* the one derived from the submitted value for phone, email and address.
FieldSelectionPriority ==
    Validated =>
        /\ (HoldsField(val_csv, "registration") /\ HoldsField(val_pdf, "registration"))
              => NormalizedOf("registration") = NormalizedFrom(val_pdf, "registration")
        /\ \A f \in {"phone", "email", "address"} :
              (HoldsField(val_csv, f) /\ HoldsField(val_pdf, f))
                  => NormalizedOf(f) = NormalizedFrom(val_csv, f)

\* run was called and has ended, by returning a record or by raising
RunEnded == val_record # NoRecord

\* the normalized value of a field is of the type of its field: a str, a
\* list, or for experience_years an int or nothing
WellTyped(f) ==
    CASE f \in {"qualifications", "specializations"} -> NormalizedOf(f).t = "list"
      [] f = "experience_years" -> NormalizedOf(f).t \in {"int", "none"}
      [] OTHER -> NormalizedOf(f).t = "str"

\* C25: normalization never raises.  For every submitted and extracted map
\* with untyped values run completes the normalization of all eight fields
\* without an exception, and each normalized value is of its field's type,
\* empty when the raw value cannot be parsed.
NormalizationNeverRaises ==
    RunEnded =>
        /\ ~val_record.raised
        /\ \A f \in FieldSet : WellTyped(f)

---------------------------------------------------------------------------
(* Properties of extract_experience_years (SpecExp)                        *)

\* C26: for every raw experience text extract_experience_years returns
\* either nothing or an integer n with 0 <= n < 120, also when the value
\* comes from the pattern "<N> yrs/years" because no digit run is in range.
ExperienceInRange ==
    exp_years # Absent =>
        \/ exp_years = NoneV
        \/ /\ exp_years.t = "int"
           /\ 0 <= exp_years.n /\ exp_years.n < 120

\* C26 witness: a text none of whose digit runs is below 120, for which the
\* "<N> yrs" pattern still gives a positive number of years.
ExperienceInRangeWitness ==
    /\ exp_text.t = "str"
    /\ exp_years.t = "int" /\ exp_years.n > 0
    /\ \A i \in 1..Len(DigitRuns(exp_text.s, <<>>)) :
          DigitsVal(DigitRuns(exp_text.s, <<>>)[i]) >= 120

---------------------------------------------------------------------------
(* Properties across the stages (SpecEnrich)                               *)

\* C27: the stages agree on the record shape.  For the record
\* enrich_provider builds from a validated record, classify raises the
\* missing_license_number issue only if the normalized registration number
\* of the validated record is empty.
StagesAgreeOnRecordShape ==
    Enriched =>
        (("missing_license_number" \in Range(Classify(QaView(enr_out)).issues))
            => enr_rec.reg = <<>>)

\* C28: the two persisted status derivations never contradict each other.
\* Whenever classify gives the enriched record a final status other than
\* VERIFIED, the status enrich_provider stored in that record is not
\* VERIFIED.
StatusesNeverContradict ==
    Enriched =>
        (Classify(QaView(enr_out)).final_status # "VERIFIED"
            => enr_out.status # "VERIFIED")

---------------------------------------------------------------------------
(* Properties of the validation flags (SpecVal)                            *)

\* run has returned a record under the default 0.5/0.5 weights
ValidatedByDefault == Validated /\ weights = DefaultWeights

OnlyKey(m, k) == [kk \in DOMAIN m |-> IF kk = k THEN m[kk] ELSE Absent]

\* C30: an empty submitted cell never erases extracted data.  When the
\* extracted map holds a non-empty value under a key of a field, the
\* submitted map holds "" or None under that same key and no value for the
\* field under any other key, the normalized value of the field is the one
\* derived from the extracted value.
EmptyCellKeepsExtracted ==
    Validated =>
        \A f \in FieldSet :
            \A i \in 1..Len(KeyOrder(f)) :
                LET k == KeyOrder(f)[i]
                IN  (/\ val_pdf[k].t # "absent"
                     /\ ~IsNoneOrEmpty(val_pdf[k])
                     /\ val_csv[k].t # "absent"
                     /\ IsNoneOrEmptyStr(val_csv[k])
                     /\ ~HoldsField(val_csv, f))
                        => NormalizedOf(f) = NormalizedFrom(OnlyKey(val_pdf, k), f)

=============================================================================
